---- MODULE Spec2Model ----
(***************************************************************************)
(* Model of terraform-provider-zitactl: the provider configuration holder  *)
(* (ClientInfo), the lazy client accessor (GetClient) and the CRUD         *)
(* handlers of the project resource, the OIDC application resource and the *)
(* orgs data source.  The remote Zitadel API is the environment: every     *)
(* remote call answers "ok", "notfound" or "error" and returns data drawn  *)
(* from small sets.                                                        *)
(***************************************************************************)
EXTENDS Integers, Sequences, FiniteSets, TLC

\* env           the process environment (the ZITACTL_* variables)
\* clientFactory the provider's clientFactory field
\* heap          the ClientInfo objects allocated so far; a pointer is an
\*               index into it and 0 is nil
\* configureResp the provider's last ConfigureResponse
\* resource      which resource or data source instance the run is about
\* clientInfo    that instance's clientInfo field
\* factoryCalls  per ClientInfo, how often GetClient invoked the factory
\* tfstate       the instance's Terraform state (Nil when absent)
\* last          the request and response of the last handler that ran
\* DefaultTransport  net/http's DefaultTransport, one per process
VARIABLES env, clientFactory, heap, configureResp, resource, clientInfo,
          factoryCalls, tfstate, last, goroutines, imported, DefaultTransport

vars == <<env, clientFactory, heap, configureResp, resource, clientInfo,
          factoryCalls, tfstate, last, goroutines, imported, DefaultTransport>>

----------------------------------------------------------------------------
(* Bounds *)

\* length of an import ID, counted in colons and colon-free pieces
MaxImportLen == 3

\* number of operations the framework runs at the same time
MaxGoroutines == 2

\* number of provider Configure calls in one run (each allocates a ClientInfo)
MaxConfigure == 1
\* number of client factory invocations per ClientInfo in one run
MaxFactoryCalls == 2
\* number of provider Configure calls in the runs that only configure
MaxReconfigure == 2

----------------------------------------------------------------------------
(* Go and terraform-plugin-framework values *)

\* a nil pointer / nil interface / nil error is the empty option, a non-nil
\* one is a one-element sequence holding the value pointed to
Nil == <<>>
Some(x) == <<x>>

\* types.String and types.Bool: ValueString()/ValueBool() of a null or an
\* unknown value is the zero value
StringNull == [k |-> "null", v |-> ""]
StringUnknown == [k |-> "unknown", v |-> ""]
StringValue(s) == [k |-> "known", v |-> s]
BoolNull == [k |-> "null", v |-> FALSE]
BoolUnknown == [k |-> "unknown", v |-> FALSE]
BoolValue(b) == [k |-> "known", v |-> b]
IsNull(a) == a.k = "null"
IsUnknown(a) == a.k = "unknown"

\* fmt.Errorf(format, args...): the format and the formatted arguments
Errorf(format, args) == Some([msg |-> format, args |-> args])

\* one entry of the per-operation log: a call made by the handler, its
\* outcome and its arguments or results
Event(e, r, a) == [e |-> e, r |-> r, a |-> a]

\* diag.Diagnostics: AddError(summary, detail)
ErrorDiag(summary, detail) == [severity |-> "error", summary |-> summary, detail |-> detail]
HasError(diags) == \E i \in 1..Len(diags) : diags[i].severity = "error"

----------------------------------------------------------------------------
(* Input values *)

ConfigDomain == "zitadel.example.com"
EnvDomain == "env.zitadel.cloud"
ConfigKey == "{\"keyId\":\"config\"}"
EnvKey == "{\"keyId\":\"env\"}"

DomainValues == {StringUnknown, StringNull, StringValue(""), StringValue(ConfigDomain)}
SkipTlsValues == {BoolUnknown, BoolNull, BoolValue(TRUE), BoolValue(FALSE)}
KeyValues == {StringUnknown, StringNull, StringValue(""), StringValue(ConfigKey)}

\* client.ZitactlProviderModel
ZitactlProviderModel == [Domain : DomainValues,
                         SkipTlsVerification : SkipTlsValues,
                         ServiceAccountKey : KeyValues]

\* the process environment: os.Getenv of an unset variable is ""
Environments == [ZITACTL_DOMAIN : {"", EnvDomain},
                 ZITACTL_SKIP_TLS_VERIFICATION : {"", "true", "1", "false"},
                 ZITACTL_SERVICE_ACCOUNT_KEY : {"", EnvKey}]

Environment(domain, skip, key) ==
    [ZITACTL_DOMAIN |-> domain, ZITACTL_SKIP_TLS_VERIFICATION |-> skip,
     ZITACTL_SERVICE_ACCOUNT_KEY |-> key]

Model(domain, skip, key) ==
    [Domain |-> domain, SkipTlsVerification |-> skip, ServiceAccountKey |-> key]

\* the settings and environments of the runs that exercise the handlers:
\* all known, one unknown, and all left to the environment
LifecycleConfigs ==
    {Model(StringValue(ConfigDomain), BoolValue(FALSE), StringValue(ConfigKey)),
     Model(StringValue(ConfigDomain), BoolValue(FALSE), StringUnknown),
     Model(StringNull, BoolNull, StringNull)}

\* a later Configure of those runs carries the known settings
LifecycleLaterConfigs ==
    {Model(StringValue(ConfigDomain), BoolValue(FALSE), StringValue(ConfigKey))}

\* no ZITACTL_* variable is set in those runs
LifecycleEnvironments == {Environment("", "", "")}

\* the settings of a provider configured again once its values are known
KnownConfigs ==
    {Model(StringValue(ConfigDomain), BoolValue(FALSE), StringValue(ConfigKey)),
     Model(StringNull, BoolNull, StringValue(ConfigKey))}

\* the factory handed to NewWithClientFactory (nil for New)
Factories == {"nil", "MockSuccessClientFactory", "MockFailureClientFactory"}

\* the factories of the runs that exercise the handlers
LifecycleFactories == {"nil", "MockFailureClientFactory"}

----------------------------------------------------------------------------
(* internal/provider/client *)

\* json.Unmarshal of the service account key succeeds
ValidKeyJSON(s) == s \in {ConfigKey, EnvKey}

\* DefaultClientFactory: nd is the outcome of client.New ("ok" or "fail"),
\* fresh is the identity of the client it would allocate
DefaultClientFactory(domain, skipTlsVerification, serviceAccountKeyJSON, nd, fresh) ==
    IF ~ValidKeyJSON(serviceAccountKeyJSON)
    THEN [client |-> Nil, err |-> Errorf("invalid service account key JSON: %w", <<"json">>)]
    ELSE IF nd = "ok"
         THEN [client |-> Some(fresh), err |-> Nil]
         ELSE [client |-> Nil, err |-> Errorf("client.New", <<domain>>)]

MockSuccessClientFactory(domain, skipTlsVerification, serviceAccountKeyJSON) ==
    [client |-> Nil, err |-> Nil]

MockFailureClientFactory(domain, skipTlsVerification, serviceAccountKeyJSON) ==
    [client |-> Nil, err |-> Errorf("mock connection failure", <<>>)]

\* a call through a ClientFactory value
CallFactory(f, domain, skip, key, nd, fresh) ==
    CASE f = "MockSuccessClientFactory" -> MockSuccessClientFactory(domain, skip, key)
      [] f = "MockFailureClientFactory" -> MockFailureClientFactory(domain, skip, key)
      [] OTHER -> DefaultClientFactory(domain, skip, key, nd, fresh)

\* http.DefaultTransport as the process starts: no TLSClientConfig
NewTransport == [TLSClientConfig |-> Nil]

\* what DefaultClientFactory leaves of http.DefaultTransport: with
\* skipTlsVerification it replaces the TLSClientConfig of the process
SetTransport(transport, skipTlsVerification) ==
    IF skipTlsVerification
    THEN [transport EXCEPT !.TLSClientConfig = Some([InsecureSkipVerify |-> TRUE])]
    ELSE transport

\* the transport after the factory calls logged in events
RECURSIVE Transported(_, _)
Transported(transport, events) ==
    IF events = <<>> THEN transport
    ELSE Transported(
             IF Head(events).e = "ClientFactory" /\ Head(events).r = "DefaultClientFactory"
             THEN SetTransport(transport, Head(events).a[2])
             ELSE transport,
             Tail(events))

\* a getUnknownFieldNames that overlooks the boolean setting
getUnknownFieldNamesOfStrings(data) ==
    (IF IsUnknown(data.Domain) THEN <<"domain">> ELSE <<>>)
    \o (IF IsUnknown(data.ServiceAccountKey) THEN <<"service_account_key">> ELSE <<>>)

\* getUnknownFieldNames: the unknown settings, in the order of the checks
getUnknownFieldNames(data) ==
    (IF IsUnknown(data.Domain) THEN <<"domain">> ELSE <<>>)
    \o (IF IsUnknown(data.SkipTlsVerification) THEN <<"skip_tls_verification">> ELSE <<>>)
    \o (IF IsUnknown(data.ServiceAccountKey) THEN <<"service_account_key">> ELSE <<>>)

\* a resolution of domain that lets a set environment variable win
ResolveDomainEnvFirst(config, environ) ==
    IF environ.ZITACTL_DOMAIN # "" THEN environ.ZITACTL_DOMAIN ELSE config.Domain.v

\* the three settings as GetClient resolves them from config and environment
ResolveDomain(config, environ) ==
    IF config.Domain.v = "" THEN environ.ZITACTL_DOMAIN ELSE config.Domain.v

ResolveSkipTls(config, environ) ==
    IF IsNull(config.SkipTlsVerification)
    THEN environ.ZITACTL_SKIP_TLS_VERIFICATION = "true" \/ environ.ZITACTL_SKIP_TLS_VERIFICATION = "1"
    ELSE config.SkipTlsVerification.v

ResolveKey(config, environ) ==
    IF config.ServiceAccountKey.v = "" THEN environ.ZITACTL_SERVICE_ACCOUNT_KEY
    ELSE config.ServiceAccountKey.v

\* the result of GetClient: the client, the error, the factory calls made,
\* and whether the call panicked (nil receiver)
GetClientResult(client, err, factory, panic) ==
    [client |-> client, err |-> err, factory |-> factory, panic |-> panic]

\* a GetClient that checks service_account_key before domain
GetClientKeyFirst(hp, p, environ, nd, fresh) ==
    IF p = 0
    THEN GetClientResult(Nil, Nil, <<>>, TRUE)
    ELSE LET ci == hp[p] IN
    IF ci.Config = Nil
    THEN GetClientResult(Nil, Errorf("provider is not configured", <<>>), <<>>, FALSE)
    ELSE IF ci.Client # Nil
    THEN GetClientResult(ci.Client, Nil, <<>>, FALSE)
    ELSE LET config == ci.Config[1] IN
         IF getUnknownFieldNames(config) # <<>>
         THEN GetClientResult(Nil,
                  Errorf("provider configuration contains unknown values: %s",
                         getUnknownFieldNames(config)), <<>>, FALSE)
         ELSE LET domain == ResolveDomain(config, environ)
                  skipTlsVerification == ResolveSkipTls(config, environ)
                  serviceAccountKey == ResolveKey(config, environ)
                  f == IF ci.ClientFactory = "nil" THEN "DefaultClientFactory"
                       ELSE ci.ClientFactory
                  made == CallFactory(f, domain, skipTlsVerification, serviceAccountKey, nd, fresh)
                  call == Event("ClientFactory", f, <<domain, skipTlsVerification, serviceAccountKey>>)
              IN IF serviceAccountKey = ""
                 THEN GetClientResult(Nil, Errorf("the 'service_account_key' attribute must be set", <<>>), <<>>, FALSE)
                 ELSE IF domain = ""
                 THEN GetClientResult(Nil, Errorf("the 'domain' attribute must be set", <<>>), <<>>, FALSE)
                 ELSE IF made.err # Nil
                 THEN GetClientResult(Nil, Errorf("failed to create Zitadel client: %w", <<made.err[1].msg>>), <<call>>, FALSE)
                 ELSE GetClientResult(made.client, Nil, <<call>>, FALSE)

\* GetClient, had it returned the error of the factory as it is
GetClientUnwrapped(hp, p, environ, nd, fresh) ==
    IF p = 0
    THEN GetClientResult(Nil, Nil, <<>>, TRUE)
    ELSE LET ci == hp[p] IN
    IF ci.Config = Nil
    THEN GetClientResult(Nil, Errorf("provider is not configured", <<>>), <<>>, FALSE)
    ELSE IF ci.Client # Nil
    THEN GetClientResult(ci.Client, Nil, <<>>, FALSE)
    ELSE LET config == ci.Config[1] IN
         IF IsUnknown(config.Domain) \/ IsUnknown(config.SkipTlsVerification)
                \/ IsUnknown(config.ServiceAccountKey)
         THEN GetClientResult(Nil,
                  Errorf("provider configuration contains unknown values: %s",
                         getUnknownFieldNames(config)), <<>>, FALSE)
         ELSE LET domain == ResolveDomain(config, environ)
                  skipTlsVerification == ResolveSkipTls(config, environ)
                  serviceAccountKey == ResolveKey(config, environ)
                  f == IF ci.ClientFactory = "nil" THEN "DefaultClientFactory"
                       ELSE ci.ClientFactory
                  made == CallFactory(f, domain, skipTlsVerification, serviceAccountKey, nd, fresh)
                  call == Event("ClientFactory", f, <<domain, skipTlsVerification, serviceAccountKey>>)
              IN IF domain = ""
                 THEN GetClientResult(Nil, Errorf("the 'domain' attribute must be set", <<>>), <<>>, FALSE)
                 ELSE IF serviceAccountKey = ""
                 THEN GetClientResult(Nil, Errorf("the 'service_account_key' attribute must be set", <<>>), <<>>, FALSE)
                 ELSE IF made.err # Nil
                 THEN GetClientResult(Nil, made.err, <<call>>, FALSE)
                 ELSE GetClientResult(made.client, Nil, <<call>>, FALSE)

\* ClientInfo.GetClient on the receiver p (0 is the nil pointer, otherwise an
\* index into the heap hp of ClientInfo): nd and fresh feed the factory
GetClient(hp, p, environ, nd, fresh) ==
    IF p = 0
    THEN GetClientResult(Nil, Nil, <<>>, TRUE)
    ELSE LET ci == hp[p] IN
    IF ci.Config = Nil
    THEN GetClientResult(Nil, Errorf("provider is not configured", <<>>), <<>>, FALSE)
    ELSE IF ci.Client # Nil
    THEN GetClientResult(ci.Client, Nil, <<>>, FALSE)
    ELSE LET config == ci.Config[1] IN
         IF IsUnknown(config.Domain) \/ IsUnknown(config.SkipTlsVerification)
                \/ IsUnknown(config.ServiceAccountKey)
         THEN GetClientResult(Nil,
                  Errorf("provider configuration contains unknown values: %s",
                         getUnknownFieldNames(config)), <<>>, FALSE)
         ELSE LET domain == ResolveDomain(config, environ)
                  skipTlsVerification == ResolveSkipTls(config, environ)
                  serviceAccountKey == ResolveKey(config, environ)
                  f == IF ci.ClientFactory = "nil" THEN "DefaultClientFactory"
                       ELSE ci.ClientFactory
                  made == CallFactory(f, domain, skipTlsVerification, serviceAccountKey, nd, fresh)
                  call == Event("ClientFactory", f, <<domain, skipTlsVerification, serviceAccountKey>>)
              IN IF domain = ""
                 THEN GetClientResult(Nil, Errorf("the 'domain' attribute must be set", <<>>), <<>>, FALSE)
                 ELSE IF serviceAccountKey = ""
                 THEN GetClientResult(Nil, Errorf("the 'service_account_key' attribute must be set", <<>>), <<>>, FALSE)
                 ELSE IF made.err # Nil
                 THEN GetClientResult(Nil, Errorf("failed to create Zitadel client: %w", <<made.err[1].msg>>), <<call>>, FALSE)
                 ELSE GetClientResult(made.client, Nil, <<call>>, FALSE)

\* the frame of a GetClient call in one goroutine: the receiver, the line
\* it is about to execute, its locals, and what it returned
Idle ==
    [pc |-> "idle", ci |-> 0, domain |-> "", skipTlsVerification |-> FALSE,
     serviceAccountKey |-> "", clientFactory |-> "nil", client |-> Nil, err |-> Nil,
     nd |-> "ok", fresh |-> <<0, 0>>]

Goroutines == 1..MaxGoroutines

Returned(local, client, err) == [local EXCEPT !.pc = "return", !.client = client, !.err = err]

\* a GetClient that keeps the client it built in ci.Client
GetClientStepCaching(ci, local, environ, nd, fresh) ==
    LET made == CallFactory(local.clientFactory, local.domain, local.skipTlsVerification,
                            local.serviceAccountKey, nd, fresh)
        called == [local EXCEPT !.nd = nd, !.fresh = fresh]
    IN CASE local.pc = "25" ->
              [ci |-> ci, access |-> {<<"Config", "read">>},
               local |-> IF ci.Config = Nil
                         THEN Returned(local, Nil, Errorf("provider is not configured", <<>>))
                         ELSE [local EXCEPT !.pc = "30"]]
         [] local.pc = "30" ->
              [ci |-> ci, access |-> {<<"Client", "read">>},
               local |-> IF ci.Client # Nil THEN Returned(local, ci.Client, Nil)
                         ELSE [local EXCEPT !.pc = "35"]]
         [] local.pc = "35" ->
              [ci |-> ci, access |-> {<<"Config", "read">>, <<"*Config", "read">>},
               local |-> IF getUnknownFieldNames(ci.Config[1]) # <<>>
                         THEN Returned(local, Nil,
                                  Errorf("provider configuration contains unknown values: %s",
                                         getUnknownFieldNames(ci.Config[1])))
                         ELSE [local EXCEPT !.pc = "41"]]
         [] local.pc = "41" ->
              [ci |-> ci, access |-> {<<"Config", "read">>, <<"*Config", "read">>},
               local |-> IF ResolveDomain(ci.Config[1], environ) = ""
                         THEN Returned(local, Nil, Errorf("the 'domain' attribute must be set", <<>>))
                         ELSE [local EXCEPT !.pc = "49",
                                            !.domain = ResolveDomain(ci.Config[1], environ)]]
         [] local.pc = "49" ->
              [ci |-> ci, access |-> {<<"Config", "read">>, <<"*Config", "read">>},
               local |-> [local EXCEPT !.pc = "55",
                              !.skipTlsVerification = ResolveSkipTls(ci.Config[1], environ)]]
         [] local.pc = "55" ->
              [ci |-> ci, access |-> {<<"Config", "read">>, <<"*Config", "read">>},
               local |-> IF ResolveKey(ci.Config[1], environ) = ""
                         THEN Returned(local, Nil,
                                  Errorf("the 'service_account_key' attribute must be set", <<>>))
                         ELSE [local EXCEPT !.pc = "64",
                                            !.serviceAccountKey = ResolveKey(ci.Config[1], environ)]]
         [] local.pc = "64" ->
              [ci |-> ci, access |-> {<<"ClientFactory", "read">>},
               local |-> [local EXCEPT !.pc = "69",
                              !.clientFactory = IF ci.ClientFactory = "nil"
                                                THEN "DefaultClientFactory" ELSE ci.ClientFactory]]
         [] OTHER ->
              IF made.err # Nil
              THEN [ci |-> ci, access |-> {},
                    local |-> Returned(called, Nil,
                                  Errorf("failed to create Zitadel client: %w", <<made.err[1].msg>>))]
              ELSE [ci |-> [ci EXCEPT !.Client = made.client], access |-> {<<"Client", "write">>},
                    local |-> Returned(called, made.client, Nil)]

\* ClientInfo.GetClient, one statement at a time: the frame local executes
\* the statement at local.pc on the ClientInfo ci. The result is the
\* ClientInfo and the frame afterwards, and the fields of the ClientInfo
\* ("*Config" for the model Config points to) the statement read or wrote
GetClientStep(ci, local, environ, nd, fresh) ==
    LET made == CallFactory(local.clientFactory, local.domain, local.skipTlsVerification,
                            local.serviceAccountKey, nd, fresh)
        called == [local EXCEPT !.nd = nd, !.fresh = fresh]
    IN CASE local.pc = "25" ->
              [ci |-> ci, access |-> {<<"Config", "read">>},
               local |-> IF ci.Config = Nil
                         THEN Returned(local, Nil, Errorf("provider is not configured", <<>>))
                         ELSE [local EXCEPT !.pc = "30"]]
         [] local.pc = "30" ->
              [ci |-> ci, access |-> {<<"Client", "read">>},
               local |-> IF ci.Client # Nil THEN Returned(local, ci.Client, Nil)
                         ELSE [local EXCEPT !.pc = "35"]]
         [] local.pc = "35" ->
              [ci |-> ci, access |-> {<<"Config", "read">>, <<"*Config", "read">>},
               local |-> IF IsUnknown(ci.Config[1].Domain)
                               \/ IsUnknown(ci.Config[1].SkipTlsVerification)
                               \/ IsUnknown(ci.Config[1].ServiceAccountKey)
                         THEN Returned(local, Nil,
                                  Errorf("provider configuration contains unknown values: %s",
                                         getUnknownFieldNames(ci.Config[1])))
                         ELSE [local EXCEPT !.pc = "41"]]
         [] local.pc = "41" ->
              [ci |-> ci, access |-> {<<"Config", "read">>, <<"*Config", "read">>},
               local |-> IF ResolveDomain(ci.Config[1], environ) = ""
                         THEN Returned(local, Nil, Errorf("the 'domain' attribute must be set", <<>>))
                         ELSE [local EXCEPT !.pc = "49",
                                            !.domain = ResolveDomain(ci.Config[1], environ)]]
         [] local.pc = "49" ->
              [ci |-> ci, access |-> {<<"Config", "read">>, <<"*Config", "read">>},
               local |-> [local EXCEPT !.pc = "55",
                              !.skipTlsVerification = ResolveSkipTls(ci.Config[1], environ)]]
         [] local.pc = "55" ->
              [ci |-> ci, access |-> {<<"Config", "read">>, <<"*Config", "read">>},
               local |-> IF ResolveKey(ci.Config[1], environ) = ""
                         THEN Returned(local, Nil,
                                  Errorf("the 'service_account_key' attribute must be set", <<>>))
                         ELSE [local EXCEPT !.pc = "64",
                                            !.serviceAccountKey = ResolveKey(ci.Config[1], environ)]]
         [] local.pc = "64" ->
              [ci |-> ci, access |-> {<<"ClientFactory", "read">>},
               local |-> [local EXCEPT !.pc = "69",
                              !.clientFactory = IF ci.ClientFactory = "nil"
                                                THEN "DefaultClientFactory" ELSE ci.ClientFactory]]
         [] OTHER ->
              [ci |-> ci, access |-> {},
               local |-> IF made.err # Nil
                         THEN Returned(called, Nil,
                                  Errorf("failed to create Zitadel client: %w", <<made.err[1].msg>>))
                         ELSE Returned(called, made.client, Nil)]

----------------------------------------------------------------------------
(* Handler plumbing *)

\* what a handler sees of the process: the heap of ClientInfo, its own
\* clientInfo pointer, the environment and the factory calls made so far on
\* that ClientInfo
Context(hp, p, environ, calls) == [heap |-> hp, ptr |-> p, env |-> environ, calls |-> calls]

\* a handler's response: the state it leaves, its diagnostics, the log of
\* the calls it made, and whether it panicked
Response(state, diags, events, crashed) ==
    [State |-> state, Diagnostics |-> diags, events |-> events, crashed |-> crashed]

\* the ClientFactory entries of a log
RECURSIVE FactoryEvents(_)
FactoryEvents(events) ==
    IF events = <<>> THEN <<>>
    ELSE (IF Head(events).e = "ClientFactory" THEN <<Head(events)>> ELSE <<>>)
         \o FactoryEvents(Tail(events))

\* r.clientInfo.GetClient(ctx) inside a handler whose log so far is pre:
\* fac[i] is client.New's outcome at the i-th factory call of the handler
LazyClient(cx, pre, fac) ==
    LET k == Len(FactoryEvents(pre))
        g == GetClient(cx.heap, cx.ptr, cx.env, fac[k + 1], <<cx.ptr, cx.calls + k + 1>>)
    IN [g |-> g,
        events |-> pre \o g.factory
                       \o <<Event("GetClient",
                                  IF g.panic THEN "panic" ELSE IF g.err = Nil THEN "ok" ELSE "err",
                                  <<g.client, g.err>>)>>]

\* a method call on the client: a nil *client.Client panics
Panic(resp) == [resp EXCEPT !.crashed = TRUE]

\* the outcome of a remote call as the handlers classify it:
\* status.FromError(err) with codes.NotFound, any other error, or success
RemoteOutcomes == {"ok", "notfound", "error"}

----------------------------------------------------------------------------
(* internal/provider/project *)

\* projectApi.PrivateLabelingSetting_value
PrivateLabelingSetting_value ==
    {"PRIVATE_LABELING_SETTING_UNSPECIFIED",
     "PRIVATE_LABELING_SETTING_ENFORCE_PROJECT_RESOURCE_OWNER_POLICY",
     "PRIVATE_LABELING_SETTING_ALLOW_LOGIN_USER_RESOURCE_OWNER_POLICY"}

\* ProjectResourceModel
ProjectResourceModel(name, orgId, hasProjectCheck, pls, roleAssertion, roleCheck, id, state) ==
    [Name |-> name, OrgId |-> orgId, HasProjectCheck |-> hasProjectCheck,
     PrivateLabelingSetting |-> pls, ProjectRoleAssertion |-> roleAssertion,
     ProjectRoleCheck |-> roleCheck, Id |-> id, State |-> state]

\* the plans Terraform hands to Create: computed attributes are unknown
ProjectPlanA ==
    ProjectResourceModel(StringValue("project-a"), StringValue("org-1"), BoolValue(TRUE),
        StringValue("PRIVATE_LABELING_SETTING_ENFORCE_PROJECT_RESOURCE_OWNER_POLICY"),
        BoolValue(TRUE), BoolValue(FALSE), StringUnknown, StringUnknown)

ProjectPlanB ==
    ProjectResourceModel(StringValue("project-b"), StringValue("org-1"), BoolUnknown,
        StringValue("INVALID_SETTING"),
        BoolValue(FALSE), BoolUnknown, StringUnknown, StringUnknown)

ProjectPlans == {ProjectPlanA, ProjectPlanB}

\* the project message of a GetProject response
RemoteProject(name, orgId, roleAssertion, authRequired, accessRequired, pls, state) ==
    [Name |-> name, OrganizationId |-> orgId, ProjectRoleAssertion |-> roleAssertion,
     AuthorizationRequired |-> authRequired, ProjectAccessRequired |-> accessRequired,
     PrivateLabelingSetting |-> pls, State |-> state]

RemoteProjectA ==
    RemoteProject("project-a", "org-1", TRUE, FALSE, TRUE,
        "PRIVATE_LABELING_SETTING_ENFORCE_PROJECT_RESOURCE_OWNER_POLICY", "PROJECT_STATE_ACTIVE")

RemoteProjectB ==
    RemoteProject("project-b", "org-1", FALSE, FALSE, FALSE,
        "PRIVATE_LABELING_SETTING_UNSPECIFIED", "PROJECT_STATE_ACTIVE")

\* what GetProject may answer: no project message, or one of two projects
GetProjectResponses == {Nil, Some(RemoteProjectA), Some(RemoteProjectB)}

\* the id CreateProject assigns
NewProjectId == "project-1"

\* a Read that skips the refresh without an error while a setting is unknown
ProjectReadDeferred(cx, state, diags, pre, in) ==
    LET data == state[1]
        c == LazyClient(cx, pre, in.fac)
        got == Event("GetProject", in.GetProject,
                     <<data.Id.v, IF in.GetProject = "ok" THEN in.project ELSE Nil>>)
        retrievedProject == in.project
        read == IF retrievedProject = Nil THEN data
                ELSE LET rp == retrievedProject[1] IN
                     [data EXCEPT !.Name = StringValue(rp.Name),
                                  !.ProjectRoleAssertion = BoolValue(rp.ProjectRoleAssertion),
                                  !.State = StringValue(rp.State),
                                  !.OrgId = StringValue(rp.OrganizationId),
                                  !.ProjectRoleCheck = BoolValue(rp.AuthorizationRequired),
                                  !.HasProjectCheck = BoolValue(rp.ProjectAccessRequired),
                                  !.PrivateLabelingSetting = StringValue(rp.PrivateLabelingSetting)]
    IN IF c.g.panic THEN Panic(Response(state, diags, c.events, FALSE))
       ELSE IF c.g.err # Nil
       THEN IF getUnknownFieldNames(cx.heap[cx.ptr].Config[1]) # <<>>
            THEN Response(state, diags, c.events, FALSE)
            ELSE Response(state,
                     Append(diags, ErrorDiag("Client configuration not possible!", c.g.err[1])),
                     c.events, FALSE)
       ELSE IF c.g.client = Nil THEN Panic(Response(state, diags, c.events, FALSE))
       ELSE IF in.GetProject = "notfound"
       THEN Response(Nil, diags,
                c.events \o <<got, Event("State.RemoveResource", "", <<>>)>>, FALSE)
       ELSE IF in.GetProject = "error"
       THEN Response(state,
                Append(diags, ErrorDiag("Error reading project",
                                        [msg |-> "Could not read project %s: %s", args |-> <<data.Id.v>>])),
                Append(c.events, got), FALSE)
       ELSE Response(Some(read), diags,
                c.events \o <<got, Event("State.Set", "", <<read>>)>>, FALSE)

\* a Read that reports not-found like any other failure
ProjectReadNotFoundError(cx, state, diags, pre, in) ==
    LET data == state[1]
        c == LazyClient(cx, pre, in.fac)
        got == Event("GetProject", in.GetProject,
                     <<data.Id.v, IF in.GetProject = "ok" THEN in.project ELSE Nil>>)
        retrievedProject == in.project
        read == IF retrievedProject = Nil THEN data
                ELSE LET rp == retrievedProject[1] IN
                     [data EXCEPT !.Name = StringValue(rp.Name),
                                  !.ProjectRoleAssertion = BoolValue(rp.ProjectRoleAssertion),
                                  !.State = StringValue(rp.State),
                                  !.OrgId = StringValue(rp.OrganizationId),
                                  !.ProjectRoleCheck = BoolValue(rp.AuthorizationRequired),
                                  !.HasProjectCheck = BoolValue(rp.ProjectAccessRequired),
                                  !.PrivateLabelingSetting = StringValue(rp.PrivateLabelingSetting)]
    IN IF c.g.panic THEN Panic(Response(state, diags, c.events, FALSE))
       ELSE IF c.g.err # Nil
       THEN Response(state,
                Append(diags, ErrorDiag("Client configuration not possible!", c.g.err[1])),
                c.events, FALSE)
       ELSE IF c.g.client = Nil THEN Panic(Response(state, diags, c.events, FALSE))
       ELSE IF in.GetProject # "ok"
       THEN Response(state,
                Append(diags, ErrorDiag("Error reading project",
                                        [msg |-> "Could not read project %s: %s", args |-> <<data.Id.v>>])),
                Append(c.events, got), FALSE)
       ELSE Response(Some(read), diags,
                c.events \o <<got, Event("State.Set", "", <<read>>)>>, FALSE)

\* ProjectResource.Read, had it dropped the state on a failed GetProject
ProjectReadDropping(cx, state, diags, pre, in) ==
    LET data == state[1]
        c == LazyClient(cx, pre, in.fac)
        got == Event("GetProject", in.GetProject,
                     <<data.Id.v, IF in.GetProject = "ok" THEN in.project ELSE Nil>>)
        retrievedProject == in.project
        read == IF retrievedProject = Nil THEN data
                ELSE LET rp == retrievedProject[1] IN
                     [data EXCEPT !.Name = StringValue(rp.Name),
                                  !.ProjectRoleAssertion = BoolValue(rp.ProjectRoleAssertion),
                                  !.State = StringValue(rp.State),
                                  !.OrgId = StringValue(rp.OrganizationId),
                                  !.ProjectRoleCheck = BoolValue(rp.AuthorizationRequired),
                                  !.HasProjectCheck = BoolValue(rp.ProjectAccessRequired),
                                  !.PrivateLabelingSetting = StringValue(rp.PrivateLabelingSetting)]
    IN IF c.g.panic THEN Panic(Response(state, diags, c.events, FALSE))
       ELSE IF c.g.err # Nil
       THEN Response(state,
                Append(diags, ErrorDiag("Client configuration not possible!", c.g.err[1])),
                c.events, FALSE)
       ELSE IF c.g.client = Nil THEN Panic(Response(state, diags, c.events, FALSE))
       ELSE IF in.GetProject = "notfound"
       THEN Response(Nil, diags,
                c.events \o <<got, Event("State.RemoveResource", "", <<>>)>>, FALSE)
       ELSE IF in.GetProject = "error"
       THEN Response(Nil,
                Append(diags, ErrorDiag("Error reading project",
                                        [msg |-> "Could not read project %s: %s", args |-> <<data.Id.v>>])),
                Append(c.events, got), FALSE)
       ELSE Response(Some(read), diags,
                c.events \o <<got, Event("State.Set", "", <<read>>)>>, FALSE)

\* ProjectResource.Read: req.State is state, resp starts as (state, diags)
ProjectRead(cx, state, diags, pre, in) ==
    LET data == state[1]
        c == LazyClient(cx, pre, in.fac)
        got == Event("GetProject", in.GetProject,
                     <<data.Id.v, IF in.GetProject = "ok" THEN in.project ELSE Nil>>)
        retrievedProject == in.project
        read == IF retrievedProject = Nil THEN data
                ELSE LET rp == retrievedProject[1] IN
                     [data EXCEPT !.Name = StringValue(rp.Name),
                                  !.ProjectRoleAssertion = BoolValue(rp.ProjectRoleAssertion),
                                  !.State = StringValue(rp.State),
                                  !.OrgId = StringValue(rp.OrganizationId),
                                  !.ProjectRoleCheck = BoolValue(rp.AuthorizationRequired),
                                  !.HasProjectCheck = BoolValue(rp.ProjectAccessRequired),
                                  !.PrivateLabelingSetting = StringValue(rp.PrivateLabelingSetting)]
    IN IF c.g.panic THEN Panic(Response(state, diags, c.events, FALSE))
       ELSE IF c.g.err # Nil
       THEN Response(state,
                Append(diags, ErrorDiag("Client configuration not possible!", c.g.err[1])),
                c.events, FALSE)
       ELSE IF c.g.client = Nil THEN Panic(Response(state, diags, c.events, FALSE))
       ELSE IF in.GetProject = "notfound"
       THEN Response(Nil, diags,
                c.events \o <<got, Event("State.RemoveResource", "", <<>>)>>, FALSE)
       ELSE IF in.GetProject = "error"
       THEN Response(state,
                Append(diags, ErrorDiag("Error reading project",
                                        [msg |-> "Could not read project %s: %s", args |-> <<data.Id.v>>])),
                Append(c.events, got), FALSE)
       ELSE Response(Some(read), diags,
                c.events \o <<got, Event("State.Set", "", <<read>>)>>, FALSE)

\* the enum a request carries for private_labeling_setting: names outside the
\* value map leave the request's zero value
PrivateLabelingSettingOf(data) ==
    IF ~IsNull(data.PrivateLabelingSetting)
          /\ data.PrivateLabelingSetting.v \in PrivateLabelingSetting_value
    THEN data.PrivateLabelingSetting.v
    ELSE "PRIVATE_LABELING_SETTING_UNSPECIFIED"

\* ProjectResource.Create, had it reported a failed GetOrgByID and gone on
ProjectCreateUnvalidated(cx, plan, in) ==
    LET data == plan
        c == LazyClient(cx, <<>>, in.fac)
        org == Event("GetOrgByID", in.GetOrgByID, <<data.OrgId.v>>)
        diags == IF in.GetOrgByID = "notfound"
                 THEN <<ErrorDiag("Invalid Organization ID",
                                  [msg |-> "Organization with ID %s does not exist.", args |-> <<data.OrgId.v>>])>>
                 ELSE IF in.GetOrgByID = "error"
                 THEN <<ErrorDiag("Error Validating Organization",
                                  [msg |-> "Could not validate organization %s: %s", args |-> <<data.OrgId.v>>])>>
                 ELSE <<>>
        createReq == [Name |-> data.Name.v, OrganizationId |-> data.OrgId.v,
                      ProjectRoleAssertion |-> data.ProjectRoleAssertion.v,
                      AuthorizationRequired |-> data.ProjectRoleCheck.v,
                      ProjectAccessRequired |-> data.HasProjectCheck.v,
                      PrivateLabelingSetting |-> PrivateLabelingSettingOf(data)]
        create == Event("CreateProject", in.CreateProject, <<createReq>>)
        created == [data EXCEPT !.Id = StringValue(NewProjectId)]
        set == Event("State.Set", "", <<created>>)
    IN IF c.g.panic THEN Panic(Response(Nil, <<>>, c.events, FALSE))
       ELSE IF c.g.err # Nil
       THEN Response(Nil, <<ErrorDiag("Client configuration not possible!", c.g.err[1])>>,
                c.events, FALSE)
       ELSE IF c.g.client = Nil THEN Panic(Response(Nil, <<>>, c.events, FALSE))
       ELSE IF in.CreateProject # "ok"
       THEN Response(Nil, Append(diags, ErrorDiag("Error creating project",
                                      [msg |-> "Could not create project: %s", args |-> <<>>])),
                c.events \o <<org, create>>, FALSE)
       ELSE Response(Nil, diags, c.events \o <<org, create>>, FALSE)

\* ProjectResource.Create: resp.State starts null
ProjectCreate(cx, plan, in) ==
    LET data == plan
        c == LazyClient(cx, <<>>, in.fac)
        org == Event("GetOrgByID", in.GetOrgByID, <<data.OrgId.v>>)
        createReq == [Name |-> data.Name.v, OrganizationId |-> data.OrgId.v,
                      ProjectRoleAssertion |-> data.ProjectRoleAssertion.v,
                      AuthorizationRequired |-> data.ProjectRoleCheck.v,
                      ProjectAccessRequired |-> data.HasProjectCheck.v,
                      PrivateLabelingSetting |-> PrivateLabelingSettingOf(data)]
        create == Event("CreateProject", in.CreateProject, <<createReq>>)
        created == [data EXCEPT !.Id = StringValue(NewProjectId)]
        set == Event("State.Set", "", <<created>>)
    IN IF c.g.panic THEN Panic(Response(Nil, <<>>, c.events, FALSE))
       ELSE IF c.g.err # Nil
       THEN Response(Nil, <<ErrorDiag("Client configuration not possible!", c.g.err[1])>>,
                c.events, FALSE)
       ELSE IF c.g.client = Nil THEN Panic(Response(Nil, <<>>, c.events, FALSE))
       ELSE IF in.GetOrgByID = "notfound"
       THEN Response(Nil, <<ErrorDiag("Invalid Organization ID",
                                      [msg |-> "Organization with ID %s does not exist.", args |-> <<data.OrgId.v>>])>>,
                Append(c.events, org), FALSE)
       ELSE IF in.GetOrgByID = "error"
       THEN Response(Nil, <<ErrorDiag("Error Validating Organization",
                                      [msg |-> "Could not validate organization %s: %s", args |-> <<data.OrgId.v>>])>>,
                Append(c.events, org), FALSE)
       ELSE IF in.CreateProject # "ok"
       THEN Response(Nil, <<ErrorDiag("Error creating project",
                                      [msg |-> "Could not create project: %s", args |-> <<>>])>>,
                c.events \o <<org, create>>, FALSE)
       ELSE ProjectRead(cx, Some(created), <<>>, c.events \o <<org, create, set>>, in)

\* ProjectResource.Update: resp.State starts as the prior state
ProjectUpdate(cx, prior, plan, in) ==
    LET data == plan
        c == LazyClient(cx, <<>>, in.fac)
        updateReq == [Id |-> data.Id.v, Name |-> Some(data.Name.v),
                      ProjectRoleAssertion |-> Some(data.ProjectRoleAssertion.v),
                      ProjectRoleCheck |-> Some(data.ProjectRoleCheck.v),
                      HasProjectCheck |-> Some(data.HasProjectCheck.v),
                      PrivateLabelingSetting |->
                          IF ~IsNull(data.PrivateLabelingSetting)
                                /\ data.PrivateLabelingSetting.v \in PrivateLabelingSetting_value
                          THEN Some(data.PrivateLabelingSetting.v) ELSE Nil]
        update == Event("UpdateProject", in.UpdateProject, <<updateReq>>)
        set == Event("State.Set", "", <<data>>)
    IN IF c.g.panic THEN Panic(Response(prior, <<>>, c.events, FALSE))
       ELSE IF c.g.err # Nil
       THEN Response(prior, <<ErrorDiag("Client configuration not possible!", c.g.err[1])>>,
                c.events, FALSE)
       ELSE IF c.g.client = Nil THEN Panic(Response(prior, <<>>, c.events, FALSE))
       ELSE IF in.UpdateProject # "ok"
       THEN Response(prior, <<ErrorDiag("Error updating project",
                                        [msg |-> "Could not update project %s: %s", args |-> <<data.Id.v>>])>>,
                Append(c.events, update), FALSE)
       ELSE ProjectRead(cx, Some(data), <<>>, c.events \o <<update, set>>, in)

\* a Delete that ignores the outcome of DeleteProject
ProjectDeleteUnchecked(cx, prior, in) ==
    LET data == prior[1]
        c == LazyClient(cx, <<>>, in.fac)
        delete == Event("DeleteProject", in.DeleteProject, <<data.Id.v>>)
    IN IF c.g.panic THEN Panic(Response(prior, <<>>, c.events, FALSE))
       ELSE IF c.g.err # Nil
       THEN Response(prior, <<ErrorDiag("Client configuration not possible!", c.g.err[1])>>,
                c.events, FALSE)
       ELSE IF c.g.client = Nil THEN Panic(Response(prior, <<>>, c.events, FALSE))
       ELSE Response(prior, <<>>, Append(c.events, delete), FALSE)

\* ProjectResource.Delete: resp.State starts as the prior state
ProjectDelete(cx, prior, in) ==
    LET data == prior[1]
        c == LazyClient(cx, <<>>, in.fac)
        delete == Event("DeleteProject", in.DeleteProject, <<data.Id.v>>)
    IN IF c.g.panic THEN Panic(Response(prior, <<>>, c.events, FALSE))
       ELSE IF c.g.err # Nil
       THEN Response(prior, <<ErrorDiag("Client configuration not possible!", c.g.err[1])>>,
                c.events, FALSE)
       ELSE IF c.g.client = Nil THEN Panic(Response(prior, <<>>, c.events, FALSE))
       ELSE IF in.DeleteProject = "error"
       THEN Response(prior, <<ErrorDiag("Error deleting project",
                                        [msg |-> "Could not delete project %s: %s", args |-> <<data.Id.v>>])>>,
                Append(c.events, delete), FALSE)
       ELSE Response(prior, <<>>, Append(c.events, delete), FALSE)

----------------------------------------------------------------------------
(* internal/provider/helper *)

\* types.List of strings
ListNull == [k |-> "null", v |-> <<>>]
ListUnknown == [k |-> "unknown", v |-> <<>>]
ListValue(xs) == [k |-> "known", v |-> xs]

\* the elements of a sequence that satisfy a membership test, in order
RECURSIVE Filter(_, _)
Filter(xs, allowed) ==
    IF xs = <<>> THEN <<>>
    ELSE (IF Head(xs) \in allowed THEN <<Head(xs)>> ELSE <<>>) \o Filter(Tail(xs), allowed)

\* ConvertEnumList: names missing from the value map are dropped
ConvertEnumList(raw, valueMap) == Filter(raw, valueMap)

\* ExtractStringList: ElementsAs fails on an unknown list and adds an error;
\* ok is !diags.HasError() of the diagnostics it appended to
ExtractStringList(list, diags) ==
    LET after == IF IsUnknown(list)
                 THEN Append(diags, ErrorDiag("Value Conversion Error", [msg |-> "unhandled unknown value", args |-> <<>>]))
                 ELSE diags
    IN [result |-> list.v, ok |-> ~HasError(after), diags |-> after]

\* ConvertStringSliceToList and ConvertEnumSliceToList: an empty slice is null
ConvertStringSliceToList(strings) ==
    IF Len(strings) = 0 THEN ListNull ELSE ListValue(strings)

ConvertEnumSliceToList(enums) ==
    IF Len(enums) = 0 THEN ListNull ELSE ListValue(enums)

\* time.ParseDuration on the strings used here (seconds), nil on a parse error
ParseDuration(s) ==
    CASE s = "0s" -> Some(0)
      [] s = "1s" -> Some(1)
      [] s = "60s" -> Some(60)
      [] s = "1m0s" -> Some(60)
      [] OTHER -> Nil

\* time.Duration.String()
DurationString(d) ==
    CASE d = 0 -> "0s"
      [] d = 1 -> "1s"
      [] OTHER -> "1m0s"

----------------------------------------------------------------------------
(* internal/provider/application_oidc *)

OIDCGrantType_value == {"OIDC_GRANT_TYPE_AUTHORIZATION_CODE", "OIDC_GRANT_TYPE_IMPLICIT",
                        "OIDC_GRANT_TYPE_REFRESH_TOKEN", "OIDC_GRANT_TYPE_DEVICE_CODE",
                        "OIDC_GRANT_TYPE_TOKEN_EXCHANGE"}
OIDCResponseType_value == {"OIDC_RESPONSE_TYPE_UNSPECIFIED", "OIDC_RESPONSE_TYPE_CODE",
                           "OIDC_RESPONSE_TYPE_ID_TOKEN", "OIDC_RESPONSE_TYPE_ID_TOKEN_TOKEN"}
OIDCAppType_value == {"OIDC_APP_TYPE_WEB", "OIDC_APP_TYPE_USER_AGENT", "OIDC_APP_TYPE_NATIVE"}
OIDCAuthMethodType_value == {"OIDC_AUTH_METHOD_TYPE_BASIC", "OIDC_AUTH_METHOD_TYPE_POST",
                             "OIDC_AUTH_METHOD_TYPE_NONE", "OIDC_AUTH_METHOD_TYPE_PRIVATE_KEY_JWT"}
OIDCVersion_value == {"OIDC_VERSION_1_0"}
OIDCTokenType_value == {"OIDC_TOKEN_TYPE_BEARER", "OIDC_TOKEN_TYPE_JWT"}

\* an enum field of a create request: the named value, else the zero value
EnumOrZero(attr, valueMap, zero) ==
    IF ~IsNull(attr) /\ attr.v \in valueMap THEN attr.v ELSE zero

\* an optional enum field of an update request: set only for a mapped name
EnumOrNil(attr, valueMap) ==
    IF ~IsNull(attr) /\ attr.v \in valueMap THEN Some(attr.v) ELSE Nil

\* the plans Terraform hands to Create and Update of an OIDC application
ApplicationPlanA ==
    [Name |-> StringValue("app-a"), ProjectId |-> StringValue("project-1"),
     GrantTypes |-> ListValue(<<"OIDC_GRANT_TYPE_AUTHORIZATION_CODE">>),
     RedirectUris |-> ListValue(<<"https://a.example.com/callback">>),
     ResponseTypes |-> ListValue(<<"OIDC_RESPONSE_TYPE_CODE">>),
     AccessTokenRoleAssertion |-> BoolUnknown, AccessTokenType |-> StringUnknown,
     AppType |-> StringValue("OIDC_APP_TYPE_WEB"),
     AuthMethodType |-> StringValue("OIDC_AUTH_METHOD_TYPE_BASIC"),
     ClockSkew |-> StringUnknown, IdTokenRoleAssertion |-> BoolUnknown,
     IdTokenUserinfoAssertion |-> BoolUnknown, SkipNativeAppSuccessPage |-> BoolUnknown,
     Version |-> StringUnknown, AdditionalOrigins |-> ListNull, DevMode |-> BoolValue(FALSE),
     PostLogoutRedirectUris |-> ListNull,
     Id |-> StringUnknown, ClientId |-> StringUnknown, ClientSecret |-> StringUnknown]

ApplicationPlanB ==
    [ApplicationPlanA EXCEPT
        !.Name = StringValue("app-b"),
        !.GrantTypes = ListValue(<<"OIDC_GRANT_TYPE_AUTHORIZATION_CODE", "NOT_A_GRANT_TYPE">>),
        !.RedirectUris = ListValue(<<>>),
        !.ClockSkew = StringValue("60s"),
        !.DevMode = BoolValue(TRUE),
        !.PostLogoutRedirectUris = ListValue(<<"https://a.example.com/">>)]

ApplicationPlanC ==
    [ApplicationPlanA EXCEPT !.ClockSkew = StringValue("soon"), !.ResponseTypes = ListUnknown]

\* post_logout_redirect_uris = [] in the configuration
ApplicationPlanD ==
    [ApplicationPlanA EXCEPT !.PostLogoutRedirectUris = ListValue(<<>>)]

\* clock_skew = "" in the configuration
ApplicationPlanH ==
    [ApplicationPlanB EXCEPT !.ClockSkew = StringValue("")]

ApplicationPlans == {ApplicationPlanA, ApplicationPlanB, ApplicationPlanC, ApplicationPlanD,
                     ApplicationPlanH}

\* the OIDC configuration of a remote application
RemoteOidcConfigA ==
    [GrantTypes |-> <<"OIDC_GRANT_TYPE_AUTHORIZATION_CODE">>,
     ResponseTypes |-> <<"OIDC_RESPONSE_TYPE_CODE">>,
     RedirectUris |-> <<"https://a.example.com/callback">>,
     PostLogoutRedirectUris |-> <<>>, AdditionalOrigins |-> <<>>,
     AccessTokenRoleAssertion |-> FALSE, IdTokenRoleAssertion |-> FALSE,
     IdTokenUserinfoAssertion |-> FALSE, DevMode |-> FALSE,
     SkipNativeAppSuccessPage |-> FALSE,
     AccessTokenType |-> "OIDC_TOKEN_TYPE_BEARER", AppType |-> "OIDC_APP_TYPE_WEB",
     AuthMethodType |-> "OIDC_AUTH_METHOD_TYPE_BASIC", Version |-> "OIDC_VERSION_1_0",
     ClockSkew |-> Nil]

RemoteOidcConfigB ==
    [RemoteOidcConfigA EXCEPT !.RedirectUris = <<>>, !.DevMode = TRUE,
                              !.PostLogoutRedirectUris = <<"https://a.example.com/">>,
                              !.ClockSkew = Some(60)]

\* what GetApplication may answer: no app message, an app without OIDC
\* configuration, or one of two OIDC applications
GetApplicationResponses ==
    {Nil,
     Some([Name |-> "app-a", OidcConfig |-> Nil]),
     Some([Name |-> "app-a", OidcConfig |-> Some(RemoteOidcConfigA)]),
     Some([Name |-> "app-b", OidcConfig |-> Some(RemoteOidcConfigB)])}

\* the app id and the credentials CreateApplication answers
NewAppId == "app-1"
CreateOidcResponses == {Nil, Some([ClientId |-> "client-1", ClientSecret |-> "secret-1"])}

\* the clock_skew Read writes, had it always taken the remote duration
ReadClockSkewRemote(data, oidcConfig) ==
    StringValue(DurationString(
        IF oidcConfig.ClockSkew = Nil THEN 0 ELSE oidcConfig.ClockSkew[1]))

\* the clock_skew Read writes for an application with OIDC configuration:
\* the remote duration when the state holds a non-empty clock_skew, else
\* null (ValueString of a null or unknown string is "")
ReadClockSkew(data, oidcConfig) ==
    IF ~IsNull(data.ClockSkew) /\ data.ClockSkew.v # ""
    THEN StringValue(DurationString(
             IF oidcConfig.ClockSkew = Nil THEN 0 ELSE oidcConfig.ClockSkew[1]))
    ELSE StringNull

\* ApplicationOIDCResource.Read, had it reported every failure of GetClient
ApplicationReadStrict(cx, state, diags, pre, in) ==
    LET data == state[1]
        c == LazyClient(cx, pre, in.fac)
        config == cx.heap[cx.ptr].Config
        hasUnknown == IsUnknown(config[1].Domain) \/ IsUnknown(config[1].SkipTlsVerification)
                          \/ IsUnknown(config[1].ServiceAccountKey)
        got == Event("GetApplication", in.GetApplication,
                     <<data.Id.v, IF in.GetApplication = "ok" THEN in.app ELSE Nil>>)
        app == in.app
        named == IF app = Nil THEN data ELSE [data EXCEPT !.Name = StringValue(app[1].Name)]
        read == IF app = Nil \/ app[1].OidcConfig = Nil THEN named
                ELSE LET oidcConfig == app[1].OidcConfig[1] IN
                     [named EXCEPT
                        !.GrantTypes = ConvertEnumSliceToList(oidcConfig.GrantTypes),
                        !.ResponseTypes = ConvertEnumSliceToList(oidcConfig.ResponseTypes),
                        !.RedirectUris = ConvertStringSliceToList(oidcConfig.RedirectUris),
                        !.PostLogoutRedirectUris = ConvertStringSliceToList(oidcConfig.PostLogoutRedirectUris),
                        !.AdditionalOrigins = ConvertStringSliceToList(oidcConfig.AdditionalOrigins),
                        !.AccessTokenRoleAssertion = BoolValue(oidcConfig.AccessTokenRoleAssertion),
                        !.IdTokenRoleAssertion = BoolValue(oidcConfig.IdTokenRoleAssertion),
                        !.IdTokenUserinfoAssertion = BoolValue(oidcConfig.IdTokenUserinfoAssertion),
                        !.DevMode = BoolValue(oidcConfig.DevMode),
                        !.SkipNativeAppSuccessPage = BoolValue(oidcConfig.SkipNativeAppSuccessPage),
                        !.AccessTokenType = StringValue(oidcConfig.AccessTokenType),
                        !.AppType = StringValue(oidcConfig.AppType),
                        !.AuthMethodType = StringValue(oidcConfig.AuthMethodType),
                        !.Version = StringValue(oidcConfig.Version),
                        !.ClockSkew = ReadClockSkew(data, oidcConfig)]
    IN IF c.g.panic THEN Panic(Response(state, diags, c.events, FALSE))
       ELSE IF c.g.err # Nil
       THEN Response(state,
                Append(diags, ErrorDiag("Client configuration not possible!", c.g.err[1])),
                c.events, FALSE)
       ELSE IF c.g.client = Nil THEN Panic(Response(state, diags, c.events, FALSE))
       ELSE IF in.GetApplication = "notfound"
       THEN Response(Nil, diags,
                c.events \o <<got, Event("State.RemoveResource", "", <<>>)>>, FALSE)
       ELSE IF in.GetApplication = "error"
       THEN Response(state,
                Append(diags, ErrorDiag("Error reading OIDC application",
                                        [msg |-> "Could not read OIDC application %s: %s", args |-> <<data.Id.v>>])),
                Append(c.events, got), FALSE)
       ELSE Response(Some(read), diags,
                c.events \o <<got, Event("State.Set", "", <<read>>)>>, FALSE)

\* req.State.Get/Plan.Get into the model, as Read writes it back
ApplicationRead(cx, state, diags, pre, in) ==
    LET data == state[1]
        c == LazyClient(cx, pre, in.fac)
        config == cx.heap[cx.ptr].Config
        hasUnknown == IsUnknown(config[1].Domain) \/ IsUnknown(config[1].SkipTlsVerification)
                          \/ IsUnknown(config[1].ServiceAccountKey)
        got == Event("GetApplication", in.GetApplication,
                     <<data.Id.v, IF in.GetApplication = "ok" THEN in.app ELSE Nil>>)
        app == in.app
        named == IF app = Nil THEN data ELSE [data EXCEPT !.Name = StringValue(app[1].Name)]
        read == IF app = Nil \/ app[1].OidcConfig = Nil THEN named
                ELSE LET oidcConfig == app[1].OidcConfig[1] IN
                     [named EXCEPT
                        !.GrantTypes = ConvertEnumSliceToList(oidcConfig.GrantTypes),
                        !.ResponseTypes = ConvertEnumSliceToList(oidcConfig.ResponseTypes),
                        !.RedirectUris = ConvertStringSliceToList(oidcConfig.RedirectUris),
                        !.PostLogoutRedirectUris = ConvertStringSliceToList(oidcConfig.PostLogoutRedirectUris),
                        !.AdditionalOrigins = ConvertStringSliceToList(oidcConfig.AdditionalOrigins),
                        !.AccessTokenRoleAssertion = BoolValue(oidcConfig.AccessTokenRoleAssertion),
                        !.IdTokenRoleAssertion = BoolValue(oidcConfig.IdTokenRoleAssertion),
                        !.IdTokenUserinfoAssertion = BoolValue(oidcConfig.IdTokenUserinfoAssertion),
                        !.DevMode = BoolValue(oidcConfig.DevMode),
                        !.SkipNativeAppSuccessPage = BoolValue(oidcConfig.SkipNativeAppSuccessPage),
                        !.AccessTokenType = StringValue(oidcConfig.AccessTokenType),
                        !.AppType = StringValue(oidcConfig.AppType),
                        !.AuthMethodType = StringValue(oidcConfig.AuthMethodType),
                        !.Version = StringValue(oidcConfig.Version),
                        !.ClockSkew = ReadClockSkew(data, oidcConfig)]
    IN IF c.g.panic THEN Panic(Response(state, diags, c.events, FALSE))
       ELSE IF c.g.err # Nil
       THEN IF config # Nil /\ hasUnknown
            THEN Response(state, diags, c.events, FALSE)
            ELSE Response(state,
                     Append(diags, ErrorDiag("Client configuration not possible!", c.g.err[1])),
                     c.events, FALSE)
       ELSE IF c.g.client = Nil THEN Panic(Response(state, diags, c.events, FALSE))
       ELSE IF in.GetApplication = "notfound"
       THEN Response(Nil, diags,
                c.events \o <<got, Event("State.RemoveResource", "", <<>>)>>, FALSE)
       ELSE IF in.GetApplication = "error"
       THEN Response(state,
                Append(diags, ErrorDiag("Error reading OIDC application",
                                        [msg |-> "Could not read OIDC application %s: %s", args |-> <<data.Id.v>>])),
                Append(c.events, got), FALSE)
       ELSE Response(Some(read), diags,
                c.events \o <<got, Event("State.Set", "", <<read>>)>>, FALSE)

\* the first of the lists, in the order given, that ExtractStringList fails on
\* (0 when every list converts)
RECURSIVE FirstUnknown(_, _)
FirstUnknown(lists, i) ==
    IF i > Len(lists) THEN 0
    ELSE IF ~ExtractStringList(lists[i], <<>>).ok THEN i
    ELSE FirstUnknown(lists, i + 1)

\* a clock_skew attribute that the handlers parse, and whether it parses
ClockSkewGiven(data) == ~IsNull(data.ClockSkew) /\ data.ClockSkew.v # ""
ClockSkewOf(data) == IF ClockSkewGiven(data) THEN ParseDuration(data.ClockSkew.v) ELSE Nil

\* ApplicationOIDCResource.Create: resp.State starts null
ApplicationCreate(cx, plan, in) ==
    LET data == plan
        c == LazyClient(cx, <<>>, in.fac)
        \* the lists Create converts, in order; null optional lists are skipped
        lists == <<data.GrantTypes, data.ResponseTypes, data.RedirectUris>>
                 \o (IF IsNull(data.PostLogoutRedirectUris) THEN <<>> ELSE <<data.PostLogoutRedirectUris>>)
                 \o (IF IsNull(data.AdditionalOrigins) THEN <<>> ELSE <<data.AdditionalOrigins>>)
        bad == FirstUnknown(lists, 1)
        createReq ==
            [ProjectId |-> data.ProjectId.v, Name |-> data.Name.v,
             RedirectUris |-> data.RedirectUris.v,
             ResponseTypes |-> ConvertEnumList(data.ResponseTypes.v, OIDCResponseType_value),
             GrantTypes |-> ConvertEnumList(data.GrantTypes.v, OIDCGrantType_value),
             AppType |-> EnumOrZero(data.AppType, OIDCAppType_value, "OIDC_APP_TYPE_WEB"),
             AuthMethodType |-> EnumOrZero(data.AuthMethodType, OIDCAuthMethodType_value, "OIDC_AUTH_METHOD_TYPE_BASIC"),
             PostLogoutRedirectUris |-> data.PostLogoutRedirectUris.v,
             Version |-> EnumOrZero(data.Version, OIDCVersion_value, "OIDC_VERSION_1_0"),
             DevMode |-> data.DevMode.v,
             AccessTokenType |-> EnumOrZero(data.AccessTokenType, OIDCTokenType_value, "OIDC_TOKEN_TYPE_BEARER"),
             AccessTokenRoleAssertion |-> data.AccessTokenRoleAssertion.v,
             IdTokenRoleAssertion |-> data.IdTokenRoleAssertion.v,
             IdTokenUserinfoAssertion |-> data.IdTokenUserinfoAssertion.v,
             ClockSkew |-> ClockSkewOf(data),
             AdditionalOrigins |-> data.AdditionalOrigins.v,
             SkipNativeAppSuccessPage |-> data.SkipNativeAppSuccessPage.v]
        create == Event("CreateApplication", in.CreateApplication, <<createReq>>)
        withId == [data EXCEPT !.Id = StringValue(NewAppId)]
        created == IF in.oidcResponse = Nil THEN withId
                   ELSE [withId EXCEPT !.ClientId = StringValue(in.oidcResponse[1].ClientId),
                                       !.ClientSecret = StringValue(in.oidcResponse[1].ClientSecret)]
        set == Event("State.Set", "", <<created>>)
    IN IF c.g.panic THEN Panic(Response(Nil, <<>>, c.events, FALSE))
       ELSE IF c.g.err # Nil
       THEN Response(Nil, <<ErrorDiag("Client configuration not possible!", c.g.err[1])>>,
                c.events, FALSE)
       ELSE IF bad # 0
       THEN Response(Nil, ExtractStringList(lists[bad], <<>>).diags, c.events, FALSE)
       ELSE IF ClockSkewGiven(data) /\ ClockSkewOf(data) = Nil
       THEN Response(Nil, <<ErrorDiag("Invalid ClockSkew",
                                      [msg |-> "Could not parse clock_skew duration: %s", args |-> <<data.ClockSkew.v>>])>>,
                c.events, FALSE)
       ELSE IF c.g.client = Nil THEN Panic(Response(Nil, <<>>, c.events, FALSE))
       ELSE IF in.CreateApplication # "ok"
       THEN Response(Nil, <<ErrorDiag("Error creating OIDC application",
                                      [msg |-> "Could not create OIDC application: %s", args |-> <<>>])>>,
                Append(c.events, create), FALSE)
       ELSE ApplicationRead(cx, Some(created), <<>>, c.events \o <<create, set>>, in)

\* the attributes Update compares between state and plan (attr.Value.Equal)
OidcConfigAttributes ==
    <<"DevMode", "GrantTypes", "ResponseTypes", "RedirectUris", "AccessTokenRoleAssertion",
      "IdTokenRoleAssertion", "IdTokenUserinfoAssertion", "SkipNativeAppSuccessPage",
      "AccessTokenType", "AppType", "AuthMethodType", "Version", "PostLogoutRedirectUris",
      "AdditionalOrigins", "ClockSkew">>

\* updateApplication, had it put the name into every request
updateApplicationNamed(data, nameChanged, oidcConfigChanged, client, diags, in) ==
    LET required == <<data.GrantTypes, data.ResponseTypes, data.RedirectUris>>
        bad == FirstUnknown(required, 1)
        failed == <<"failed to convert grant types", "failed to convert response types",
                    "failed to convert redirect URIs">>
        d1 == IF ~IsNull(data.PostLogoutRedirectUris)
              THEN ExtractStringList(data.PostLogoutRedirectUris, diags) 
              ELSE [result |-> <<>>, ok |-> TRUE, diags |-> diags]
        d2 == IF ~IsNull(data.AdditionalOrigins)
              THEN ExtractStringList(data.AdditionalOrigins, d1.diags)
              ELSE [result |-> <<>>, ok |-> TRUE, diags |-> d1.diags]
        oidcConfig ==
            [RedirectUris |-> data.RedirectUris.v,
             ResponseTypes |-> ConvertEnumList(data.ResponseTypes.v, OIDCResponseType_value),
             GrantTypes |-> ConvertEnumList(data.GrantTypes.v, OIDCGrantType_value),
             AccessTokenRoleAssertion |-> Some(data.AccessTokenRoleAssertion.v),
             IdTokenRoleAssertion |-> Some(data.IdTokenRoleAssertion.v),
             IdTokenUserinfoAssertion |-> Some(data.IdTokenUserinfoAssertion.v),
             DevMode |-> Some(data.DevMode.v),
             SkipNativeAppSuccessPage |-> Some(data.SkipNativeAppSuccessPage.v),
             AccessTokenType |-> EnumOrNil(data.AccessTokenType, OIDCTokenType_value),
             AppType |-> EnumOrNil(data.AppType, OIDCAppType_value),
             AuthMethodType |-> EnumOrNil(data.AuthMethodType, OIDCAuthMethodType_value),
             Version |-> EnumOrNil(data.Version, OIDCVersion_value),
             PostLogoutRedirectUris |-> IF d1.ok THEN d1.result ELSE <<>>,
             AdditionalOrigins |-> IF d2.ok THEN d2.result ELSE <<>>,
             ClockSkew |-> ClockSkewOf(data)]
        updateReq == [Id |-> data.Id.v, ProjectId |-> data.ProjectId.v,
                      Name |-> data.Name.v,
                      OidcConfigurationRequest |-> IF oidcConfigChanged THEN Some(oidcConfig) ELSE Nil]
        update == Event("UpdateApplication", in.UpdateApplication, <<updateReq>>)
        sent(ds) == IF client = Nil
                    THEN [err |-> Nil, diags |-> ds, events |-> <<>>, panic |-> TRUE]
                    ELSE [err |-> IF in.UpdateApplication = "ok" THEN Nil
                                  ELSE Errorf("UpdateApplication", <<in.UpdateApplication>>),
                          diags |-> ds, events |-> <<update>>, panic |-> FALSE]
    IN IF ~oidcConfigChanged THEN sent(diags)
       ELSE IF bad # 0
       THEN [err |-> Errorf(failed[bad], <<>>),
             diags |-> ExtractStringList(required[bad], diags).diags,
             events |-> <<>>, panic |-> FALSE]
       ELSE IF ClockSkewGiven(data) /\ ClockSkewOf(data) = Nil
       THEN [err |-> Errorf("time: invalid duration", <<data.ClockSkew.v>>),
             diags |-> Append(d2.diags, ErrorDiag("Invalid ClockSkew",
                                 [msg |-> "Could not parse clock_skew duration: %s", args |-> <<data.ClockSkew.v>>])),
             events |-> <<>>, panic |-> FALSE]
       ELSE sent(d2.diags)

\* ApplicationOIDCResource.updateApplication: the error it returns (nil on
\* success), the diagnostics it leaves and the calls it made
updateApplication(data, nameChanged, oidcConfigChanged, client, diags, in) ==
    LET required == <<data.GrantTypes, data.ResponseTypes, data.RedirectUris>>
        bad == FirstUnknown(required, 1)
        failed == <<"failed to convert grant types", "failed to convert response types",
                    "failed to convert redirect URIs">>
        d1 == IF ~IsNull(data.PostLogoutRedirectUris)
              THEN ExtractStringList(data.PostLogoutRedirectUris, diags) 
              ELSE [result |-> <<>>, ok |-> TRUE, diags |-> diags]
        d2 == IF ~IsNull(data.AdditionalOrigins)
              THEN ExtractStringList(data.AdditionalOrigins, d1.diags)
              ELSE [result |-> <<>>, ok |-> TRUE, diags |-> d1.diags]
        oidcConfig ==
            [RedirectUris |-> data.RedirectUris.v,
             ResponseTypes |-> ConvertEnumList(data.ResponseTypes.v, OIDCResponseType_value),
             GrantTypes |-> ConvertEnumList(data.GrantTypes.v, OIDCGrantType_value),
             AccessTokenRoleAssertion |-> Some(data.AccessTokenRoleAssertion.v),
             IdTokenRoleAssertion |-> Some(data.IdTokenRoleAssertion.v),
             IdTokenUserinfoAssertion |-> Some(data.IdTokenUserinfoAssertion.v),
             DevMode |-> Some(data.DevMode.v),
             SkipNativeAppSuccessPage |-> Some(data.SkipNativeAppSuccessPage.v),
             AccessTokenType |-> EnumOrNil(data.AccessTokenType, OIDCTokenType_value),
             AppType |-> EnumOrNil(data.AppType, OIDCAppType_value),
             AuthMethodType |-> EnumOrNil(data.AuthMethodType, OIDCAuthMethodType_value),
             Version |-> EnumOrNil(data.Version, OIDCVersion_value),
             PostLogoutRedirectUris |-> IF d1.ok THEN d1.result ELSE <<>>,
             AdditionalOrigins |-> IF d2.ok THEN d2.result ELSE <<>>,
             ClockSkew |-> ClockSkewOf(data)]
        updateReq == [Id |-> data.Id.v, ProjectId |-> data.ProjectId.v,
                      Name |-> IF nameChanged THEN data.Name.v ELSE "",
                      OidcConfigurationRequest |-> IF oidcConfigChanged THEN Some(oidcConfig) ELSE Nil]
        update == Event("UpdateApplication", in.UpdateApplication, <<updateReq>>)
        sent(ds) == IF client = Nil
                    THEN [err |-> Nil, diags |-> ds, events |-> <<>>, panic |-> TRUE]
                    ELSE [err |-> IF in.UpdateApplication = "ok" THEN Nil
                                  ELSE Errorf("UpdateApplication", <<in.UpdateApplication>>),
                          diags |-> ds, events |-> <<update>>, panic |-> FALSE]
    IN IF ~oidcConfigChanged THEN sent(diags)
       ELSE IF bad # 0
       THEN [err |-> Errorf(failed[bad], <<>>),
             diags |-> ExtractStringList(required[bad], diags).diags,
             events |-> <<>>, panic |-> FALSE]
       ELSE IF ClockSkewGiven(data) /\ ClockSkewOf(data) = Nil
       THEN [err |-> Errorf("time: invalid duration", <<data.ClockSkew.v>>),
             diags |-> Append(d2.diags, ErrorDiag("Invalid ClockSkew",
                                 [msg |-> "Could not parse clock_skew duration: %s", args |-> <<data.ClockSkew.v>>])),
             events |-> <<>>, panic |-> FALSE]
       ELSE sent(d2.diags)

\* ApplicationOIDCResource.Update: resp.State starts as the prior state
ApplicationUpdate(cx, prior, plan, in) ==
    LET data == plan
        state == prior[1]
        c == LazyClient(cx, <<>>, in.fac)
        nameChanged == state.Name.v # data.Name.v
        oidcConfigChanged ==
            \E i \in 1..Len(OidcConfigAttributes) :
                state[OidcConfigAttributes[i]] # data[OidcConfigAttributes[i]]
        u == updateApplication(data, nameChanged, oidcConfigChanged, c.g.client, <<>>, in)
        none == [err |-> Nil, diags |-> <<>>, events |-> <<>>, panic |-> FALSE]
        done == IF nameChanged \/ oidcConfigChanged THEN u ELSE none
        set == Event("State.Set", "", <<data>>)
    IN IF c.g.panic THEN Panic(Response(prior, <<>>, c.events, FALSE))
       ELSE IF c.g.err # Nil
       THEN Response(prior, <<ErrorDiag("Client configuration not possible!", c.g.err[1])>>,
                c.events, FALSE)
       ELSE IF done.panic THEN Panic(Response(prior, done.diags, c.events \o done.events, FALSE))
       ELSE IF done.err # Nil
       THEN Response(prior,
                Append(done.diags, ErrorDiag("Error updating OIDC application",
                                       [msg |-> "Could not update OIDC application %s: %s",
                                        args |-> <<data.Id.v, done.err[1].msg>>])),
                c.events \o done.events, FALSE)
       ELSE IF HasError(done.diags)
       THEN Response(Some(data), done.diags, c.events \o done.events \o <<set>>, FALSE)
       ELSE ApplicationRead(cx, Some(data), done.diags, c.events \o done.events \o <<set>>, in)

\* ApplicationOIDCResource.Delete, had it reported every failure of
\* DeleteApplication
ApplicationDeleteStrict(cx, prior, in) ==
    LET data == prior[1]
        c == LazyClient(cx, <<>>, in.fac)
        delete == Event("DeleteApplication", in.DeleteApplication, <<data.Id.v, data.ProjectId.v>>)
    IN IF c.g.panic THEN Panic(Response(prior, <<>>, c.events, FALSE))
       ELSE IF c.g.err # Nil
       THEN Response(prior, <<ErrorDiag("Client configuration not possible!", c.g.err[1])>>,
                c.events, FALSE)
       ELSE IF c.g.client = Nil THEN Panic(Response(prior, <<>>, c.events, FALSE))
       ELSE IF in.DeleteApplication # "ok"
       THEN Response(prior, <<ErrorDiag("Error deleting OIDC application",
                                        [msg |-> "Could not delete OIDC application %s: %s", args |-> <<data.Id.v>>])>>,
                Append(c.events, delete), FALSE)
       ELSE Response(prior, <<>>, Append(c.events, delete), FALSE)

\* ApplicationOIDCResource.Delete: resp.State starts as the prior state
ApplicationDelete(cx, prior, in) ==
    LET data == prior[1]
        c == LazyClient(cx, <<>>, in.fac)
        delete == Event("DeleteApplication", in.DeleteApplication, <<data.Id.v, data.ProjectId.v>>)
    IN IF c.g.panic THEN Panic(Response(prior, <<>>, c.events, FALSE))
       ELSE IF c.g.err # Nil
       THEN Response(prior, <<ErrorDiag("Client configuration not possible!", c.g.err[1])>>,
                c.events, FALSE)
       ELSE IF c.g.client = Nil THEN Panic(Response(prior, <<>>, c.events, FALSE))
       ELSE IF in.DeleteApplication = "error"
       THEN Response(prior, <<ErrorDiag("Error deleting OIDC application",
                                        [msg |-> "Could not delete OIDC application %s: %s", args |-> <<data.Id.v>>])>>,
                Append(c.events, delete), FALSE)
       ELSE Response(prior, <<>>, Append(c.events, delete), FALSE)

\* a string as strings.Split(s, ":") sees it: the sequence of its colons and
\* of its maximal colon-free pieces, so no two pieces are adjacent
Pieces == {"project-1", "app-1"}
Strings(n) ==
    {s \in UNION {[1..m -> Pieces \cup {":"}] : m \in 0..n} :
        \A i \in 1..(Len(s) - 1) : s[i] = ":" \/ s[i + 1] = ":"}

\* the import IDs a user may give
ImportIDs == Strings(MaxImportLen)

\* strings.Split(s, sep) for a one-character separator: the pieces between
\* the separators, empty ones included; a string without separator is one part
RECURSIVE Split(_, _)
Split(s, sep) ==
    IF s = <<>> THEN << <<>> >>
    ELSE LET rest == Split(Tail(s), sep) IN
         IF Head(s) = sep THEN << <<>> >> \o rest
         ELSE << <<Head(s)>> \o Head(rest) >> \o Tail(rest)

\* a part of a split as a Go string: a part holds no separator, so it is
\* empty or one piece
Text(part) == IF part = <<>> THEN "" ELSE part[1]

\* the null state of the resource, as resp.State is when ImportState starts
ApplicationNull ==
    [Name |-> StringNull, ProjectId |-> StringNull, GrantTypes |-> ListNull,
     RedirectUris |-> ListNull, ResponseTypes |-> ListNull,
     AccessTokenRoleAssertion |-> BoolNull, AccessTokenType |-> StringNull,
     AppType |-> StringNull, AuthMethodType |-> StringNull, ClockSkew |-> StringNull,
     IdTokenRoleAssertion |-> BoolNull, IdTokenUserinfoAssertion |-> BoolNull,
     SkipNativeAppSuccessPage |-> BoolNull, Version |-> StringNull,
     AdditionalOrigins |-> ListNull, DevMode |-> BoolNull, PostLogoutRedirectUris |-> ListNull,
     Id |-> StringNull, ClientId |-> StringNull, ClientSecret |-> StringNull]

\* an ImportState that takes the text before the first colon and the text
\* after it
ImportStateLenient(ID) ==
    LET parts == Split(ID, ":")
        projectId == Text(parts[1])
        appId == IF Len(parts) < 2 THEN "" ELSE Text(parts[2])
        set == [ApplicationNull EXCEPT !.ProjectId = StringValue(projectId),
                                       !.Id = StringValue(appId)]
    IN Response(Some(set), <<>>,
           <<Event("State.SetAttribute", "project_id", <<projectId>>),
             Event("State.SetAttribute", "id", <<appId>>)>>, FALSE)

\* ApplicationOIDCResource.ImportState: resp.State starts null
ImportState(ID) ==
    LET parts == Split(ID, ":") IN
    IF Len(parts) # 2
    THEN Response(Nil, <<ErrorDiag("Invalid Import ID",
                                   [msg |-> "Expected import ID format: 'project_id:app_id', got: %s",
                                    args |-> <<ID>>])>>, <<>>, FALSE)
    ELSE LET projectId == Text(parts[1])
             appId == Text(parts[2])
             set == [ApplicationNull EXCEPT !.ProjectId = StringValue(projectId),
                                            !.Id = StringValue(appId)]
         IN Response(Some(set), <<>>,
                <<Event("State.SetAttribute", "project_id", <<projectId>>),
                  Event("State.SetAttribute", "id", <<appId>>)>>, FALSE)

----------------------------------------------------------------------------
(* internal/provider/org *)

\* objectV2.TextQueryMethod_value
TextQueryMethod_value ==
    {"TEXT_QUERY_METHOD_EQUALS", "TEXT_QUERY_METHOD_EQUALS_IGNORE_CASE",
     "TEXT_QUERY_METHOD_STARTS_WITH", "TEXT_QUERY_METHOD_STARTS_WITH_IGNORE_CASE",
     "TEXT_QUERY_METHOD_CONTAINS", "TEXT_QUERY_METHOD_CONTAINS_IGNORE_CASE",
     "TEXT_QUERY_METHOD_ENDS_WITH", "TEXT_QUERY_METHOD_ENDS_WITH_IGNORE_CASE"}

\* OrgsDataSourceModel as read from the configuration: ids is computed
OrgsConfigs ==
    [Ids : {ListNull},
     Name : {StringValue("Sanctum"), StringValue("")},
     NameMethod : {StringNull, StringUnknown, StringValue("TEXT_QUERY_METHOD_CONTAINS"),
                   StringValue("INVALID_TEXT_QUERY_METHOD")}]

\* the ids of the organizations a ListOrganizations response may carry
ListOrganizationsResults == {<<>>, <<"org-1">>, <<"org-2", "org-1">>}

\* the ids collected by prepending each organization instead of appending it
SliceToListReversed(ids) ==
    IF Len(ids) = 0 THEN ListNull
    ELSE ListValue([i \in 1..Len(ids) |-> ids[Len(ids) + 1 - i]])

\* a []types.String written to state: a nil slice becomes a null list
SliceToList(ids) == IF Len(ids) = 0 THEN ListNull ELSE ListValue(ids)

\* OrgsDataSource.Read, had it searched with the default method on a
\* name_method it does not know
OrgsReadDefaulting(cx, config, in) ==
    LET data == config
        c == LazyClient(cx, <<>>, in.fac)
        given == ~IsNull(data.NameMethod) /\ ~IsUnknown(data.NameMethod)
        queryMethod == IF given /\ data.NameMethod.v \in TextQueryMethod_value
                       THEN data.NameMethod.v
                       ELSE "TEXT_QUERY_METHOD_EQUALS_IGNORE_CASE"
        list == Event("ListOrganizations", in.ListOrganizations,
                      <<data.Name.v, queryMethod,
                        IF in.ListOrganizations = "ok" THEN Some(in.result) ELSE Nil>>)
        read == [data EXCEPT !.Ids = SliceToList(in.result)]
    IN IF c.g.panic THEN Panic(Response(Nil, <<>>, c.events, FALSE))
       ELSE IF c.g.err # Nil
       THEN Response(Nil, <<ErrorDiag("Client configuration not possible!", c.g.err[1])>>,
                c.events, FALSE)
       ELSE IF c.g.client = Nil THEN Panic(Response(Nil, <<>>, c.events, FALSE))
       ELSE IF in.ListOrganizations # "ok"
       THEN Response(Nil, <<ErrorDiag("Failed to list organizations",
                                      [msg |-> "Unable to search for organizations with name '%s': %s", args |-> <<data.Name.v>>])>>,
                Append(c.events, list), FALSE)
       ELSE Response(Some(read), <<>>,
                c.events \o <<list, Event("State.Set", "", <<read>>)>>, FALSE)

\* OrgsDataSource.Read: resp.State starts null
OrgsRead(cx, config, in) ==
    LET data == config
        c == LazyClient(cx, <<>>, in.fac)
        given == ~IsNull(data.NameMethod) /\ ~IsUnknown(data.NameMethod)
        queryMethod == IF given THEN data.NameMethod.v
                       ELSE "TEXT_QUERY_METHOD_EQUALS_IGNORE_CASE"
        list == Event("ListOrganizations", in.ListOrganizations,
                      <<data.Name.v, queryMethod,
                        IF in.ListOrganizations = "ok" THEN Some(in.result) ELSE Nil>>)
        read == [data EXCEPT !.Ids = SliceToList(in.result)]
    IN IF c.g.panic THEN Panic(Response(Nil, <<>>, c.events, FALSE))
       ELSE IF c.g.err # Nil
       THEN Response(Nil, <<ErrorDiag("Client configuration not possible!", c.g.err[1])>>,
                c.events, FALSE)
       ELSE IF given /\ data.NameMethod.v \notin TextQueryMethod_value
       THEN Response(Nil, <<ErrorDiag("Invalid name_method",
                                      [msg |-> "The provided name_method '%s' is not valid.", args |-> <<data.NameMethod.v>>])>>,
                c.events, FALSE)
       ELSE IF c.g.client = Nil THEN Panic(Response(Nil, <<>>, c.events, FALSE))
       ELSE IF in.ListOrganizations # "ok"
       THEN Response(Nil, <<ErrorDiag("Failed to list organizations",
                                      [msg |-> "Unable to search for organizations with name '%s': %s", args |-> <<data.Name.v>>])>>,
                Append(c.events, list), FALSE)
       ELSE Response(Some(read), <<>>,
                c.events \o <<list, Event("State.Set", "", <<read>>)>>, FALSE)

----------------------------------------------------------------------------
(* internal/provider: the provider and the Configure methods *)

Resources == {"project", "application_oidc", "orgs"}

\* a Configure that rejects settings it cannot resolve yet
ConfigureValidating(factory, hp, data) ==
    IF getUnknownFieldNames(data) # <<>>
    THEN [heap |-> hp, DataSourceData |-> 0, ResourceData |-> 0,
          Diagnostics |-> <<ErrorDiag("Unknown provider configuration",
                                      [msg |-> "provider configuration contains unknown values: %s",
                                       args |-> getUnknownFieldNames(data)])>>,
          Deferred |-> Nil, events |-> <<>>]
    ELSE [heap |-> Append(hp, [Config |-> Some(data), ClientFactory |-> factory, Client |-> Nil]),
          DataSourceData |-> Len(hp) + 1, ResourceData |-> Len(hp) + 1,
          Diagnostics |-> <<>>, Deferred |-> Nil, events |-> <<>>]

\* a Configure that builds the client at once when the settings allow it
ConfigureEager(factory, hp, data) ==
    LET at == Len(hp) + 1
        ready == getUnknownFieldNames(data) = <<>> /\ data.Domain.v # ""
                    /\ data.ServiceAccountKey.v # ""
        f == IF factory = "nil" THEN "DefaultClientFactory" ELSE factory
        call == Event("ClientFactory", f,
                      <<data.Domain.v, data.SkipTlsVerification.v, data.ServiceAccountKey.v>>)
    IN [heap |-> Append(hp, [Config |-> Some(data), ClientFactory |-> factory,
                             Client |-> IF ready THEN Some(<<at, 1>>) ELSE Nil]),
        DataSourceData |-> at, ResourceData |-> at,
        Diagnostics |-> <<>>, Deferred |-> Nil,
        events |-> IF ready THEN <<call>> ELSE <<>>]

\* a Configure that forgets the factory the provider was built with
ConfigureDefaultFactory(factory, hp, data) ==
    [heap |-> Append(hp, [Config |-> Some(data), ClientFactory |-> "nil", Client |-> Nil]),
     DataSourceData |-> Len(hp) + 1, ResourceData |-> Len(hp) + 1,
     Diagnostics |-> <<>>, Deferred |-> Nil, events |-> <<>>]

\* ZitactlProvider.Configure on a configuration that holds data: the
\* response, the heap after the allocation, and the calls made
Configure(factory, hp, data) ==
    LET ci == [Config |-> Some(data), ClientFactory |-> factory, Client |-> Nil]
        at == Len(hp) + 1
    IN [heap |-> Append(hp, ci),
        DataSourceData |-> at, ResourceData |-> at,
        Diagnostics |-> <<>>, Deferred |-> Nil, events |-> <<>>]

\* ProjectResource.Configure, ApplicationOIDCResource.Configure and
\* OrgsDataSource.Configure (the same code): ProviderData is nil (0) or the
\* *client.ClientInfo the provider handed out; the result is the clientInfo
\* field afterwards
ResourceConfigure(field, ProviderData) ==
    IF ProviderData = 0 THEN [clientInfo |-> field, Diagnostics |-> <<>>, events |-> <<>>]
    ELSE [clientInfo |-> ProviderData, Diagnostics |-> <<>>, events |-> <<>>]

\* stringplanmodifier.UseStateForUnknown / boolplanmodifier.UseStateForUnknown
UseStateForUnknown(planValue, stateValue) ==
    IF IsNull(stateValue) THEN planValue
    ELSE IF ~IsUnknown(planValue) THEN planValue
    ELSE stateValue

\* the plan of an Update of a project: id carries UseStateForUnknown
ProjectUpdatePlan(plan, state) ==
    [plan EXCEPT !.Id = UseStateForUnknown(plan.Id, state.Id)]

\* the attributes of an OIDC application that carry UseStateForUnknown
UseStateAttributes ==
    <<"AccessTokenRoleAssertion", "AccessTokenType", "AppType", "AuthMethodType", "ClockSkew",
      "IdTokenRoleAssertion", "IdTokenUserinfoAssertion", "SkipNativeAppSuccessPage",
      "Version", "Id", "ClientId", "ClientSecret">>

\* the plan of an Update, had no attribute carried UseStateForUnknown
ApplicationUpdatePlanUnmodified(plan, state) == plan

\* the plan of an Update of an OIDC application
ApplicationUpdatePlan(plan, state) ==
    [a \in DOMAIN plan |->
        IF \E i \in 1..Len(UseStateAttributes) : UseStateAttributes[i] = a
        THEN UseStateForUnknown(plan[a], state[a])
        ELSE plan[a]]

----------------------------------------------------------------------------
(* The state machine *)

NoResponse == Response(Nil, <<>>, <<>>, FALSE)

\* the record of a handler run: the handler, the ClientInfo pointer it used
\* or handed out, the configuration or the plan of the request (provider
\* Configure, the data source's Read, the project's Create, the OIDC
\* application's Update), the state on entry, and its response
Ran(op, p, req, entry, resp) ==
    [op |-> op, ptr |-> p, req |-> req, entry |-> entry, State |-> resp.State,
     Diagnostics |-> resp.Diagnostics, events |-> resp.events, crashed |-> resp.crashed]

here == Context(heap, clientInfo, env, IF clientInfo = 0 THEN 0 ELSE factoryCalls[clientInfo])

\* the factory calls a response adds to the ClientInfo p
Counted(p, events) ==
    IF p = 0 THEN factoryCalls
    ELSE [factoryCalls EXCEPT ![p] = @ + Len(FactoryEvents(events))]

\* a handler that was given the request req and the state entry ran and left
\* state st behind
FinishRequest(op, req, entry, resp, st) ==
    /\ \A i \in 1..Len(Counted(clientInfo, resp.events)) :
           Counted(clientInfo, resp.events)[i] <= MaxFactoryCalls
    /\ last' = Ran(op, clientInfo, req, entry, resp)
    /\ tfstate' = IF resp.crashed THEN tfstate ELSE st
    /\ factoryCalls' = Counted(clientInfo, resp.events)
    /\ DefaultTransport' = Transported(DefaultTransport, resp.events)
    /\ UNCHANGED <<env, clientFactory, heap, configureResp, resource, clientInfo, goroutines,
                   imported>>

Finish(op, entry, resp, st) == FinishRequest(op, Nil, entry, resp, st)

\* a provider process of an earlier Terraform run, configured with known
\* settings and the default factory
PriorContext ==
    Context(Configure("nil", <<>>, Model(StringValue(ConfigDomain), BoolValue(FALSE),
                                         StringValue(ConfigKey))).heap,
            1, Environment("", "", ""), 0)

\* what the state file holds when the provider process starts: nothing, or
\* what a Create of an earlier run wrote
PriorStates(r) ==
    IF r = "project"
    THEN {Nil, ProjectCreate(PriorContext, ProjectPlanA,
                   [fac |-> <<"ok", "ok">>, GetOrgByID |-> "ok", CreateProject |-> "ok",
                    GetProject |-> "ok", project |-> Some(RemoteProjectA)]).State}
    ELSE IF r = "application_oidc"
    THEN {Nil, ApplicationCreate(PriorContext, ApplicationPlanA,
                   [fac |-> <<"ok", "ok">>, CreateApplication |-> "ok",
                    oidcResponse |-> Some([ClientId |-> "client-1", ClientSecret |-> "secret-1"]),
                    GetApplication |-> "ok",
                    app |-> Some([Name |-> "app-a", OidcConfig |-> Some(RemoteOidcConfigA)])]).State}
    ELSE {Nil}

InitWith(environments, factories) ==
    /\ env \in environments
    /\ clientFactory \in factories
    /\ heap = <<>>
    /\ configureResp = [DataSourceData |-> 0, ResourceData |-> 0,
                        Diagnostics |-> <<>>, Deferred |-> Nil]
    /\ resource \in Resources
    /\ clientInfo = 0
    /\ factoryCalls = <<>>
    /\ tfstate \in PriorStates(resource)
    /\ last = Ran("none", 0, Nil, Nil, NoResponse)
    /\ goroutines = [g \in Goroutines |-> Idle]
    /\ imported = Nil
    /\ DefaultTransport = NewTransport

\* the provider's Configure RPC, at most max times: the first call draws its
\* settings from first, a later call from later
ProviderConfigure(first, later, max) ==
    /\ Len(heap) < max
    /\ \E data \in (IF heap = <<>> THEN first ELSE later) :
          LET resp == Configure(clientFactory, heap, data) IN
          /\ heap' = resp.heap
          /\ configureResp' = [DataSourceData |-> resp.DataSourceData,
                               ResourceData |-> resp.ResourceData,
                               Diagnostics |-> resp.Diagnostics,
                               Deferred |-> resp.Deferred]
          /\ factoryCalls' = Append(factoryCalls, Len(FactoryEvents(resp.events)))
          /\ last' = Ran("Provider.Configure", resp.ResourceData, Some(data), tfstate,
                         Response(tfstate, resp.Diagnostics, resp.events, FALSE))
          /\ DefaultTransport' = Transported(DefaultTransport, resp.events)
    /\ UNCHANGED <<env, clientFactory, resource, clientInfo, tfstate, goroutines, imported>>

\* the Configure RPC of the resource or data source: the framework passes the
\* provider's ResourceData (DataSourceData for the data source)
ConfigureResource ==
    LET ProviderData == IF resource = "orgs" THEN configureResp.DataSourceData
                        ELSE configureResp.ResourceData
        resp == ResourceConfigure(clientInfo, ProviderData)
    IN /\ clientInfo' = resp.clientInfo
       /\ last' = Ran("Resource.Configure", resp.clientInfo, Nil, tfstate,
                      Response(tfstate, resp.Diagnostics, resp.events, FALSE))
       /\ UNCHANGED <<env, clientFactory, heap, configureResp, resource, factoryCalls, tfstate,
                       goroutines, imported, DefaultTransport>>

Once == {<<"ok">>, <<"fail">>}
Twice == {<<"ok", "ok">>, <<"ok", "fail">>, <<"fail", "ok">>}

\* the handler can get a client at all when client.New succeeds
Obtainable ==
    LET g == GetClient(heap, clientInfo, env, "ok", <<0, 0>>)
    IN ~g.panic /\ g.err = Nil /\ g.client # Nil

\* inputs nobody reads are left at their defaults: steps[i] = <<ok, default>>
\* tells whether the i-th input lets the handler go on and whether it is the
\* default; after the first input that stops the handler every input is the
\* default
Relevant(steps) ==
    \A i \in 1..Len(steps) : \A j \in (i + 1)..Len(steps) :
        IF steps[i][1] THEN TRUE ELSE steps[j][2]

\* when no client can be obtained, every input is the default
Defaults(steps) == \A j \in 1..Len(steps) : steps[j][2]

Reads(obtainable, steps) == IF obtainable THEN TRUE ELSE Defaults(steps)

Ok(x) == <<x = "ok", x = "ok">>

ProjectCreateSteps(in) ==
    <<Ok(in.fac[1]), Ok(in.GetOrgByID), Ok(in.CreateProject), Ok(in.fac[2]),
      Ok(in.GetProject), <<TRUE, in.project = Nil>> >>

ProjectCreateInputs ==
    {in \in [fac : Twice, GetOrgByID : RemoteOutcomes, CreateProject : RemoteOutcomes,
             GetProject : RemoteOutcomes, project : GetProjectResponses] :
        Relevant(ProjectCreateSteps(in))}

ProjectCreateOp ==
    /\ resource = "project" /\ tfstate = Nil
    /\ \E ob \in {Obtainable} : \E plan \in ProjectPlans : \E in \in ProjectCreateInputs :
          /\ Reads(ob, ProjectCreateSteps(in))
          /\ \E resp \in {ProjectCreate(here, plan, in)} :
             FinishRequest("Project.Create", Some(plan), tfstate, resp, resp.State)

ProjectReadSteps(in) == <<Ok(in.fac[1]), Ok(in.GetProject), <<TRUE, in.project = Nil>> >>

ProjectReadInputs ==
    {in \in [fac : Once, GetProject : RemoteOutcomes, project : GetProjectResponses] :
        Relevant(ProjectReadSteps(in))}

ProjectReadOp ==
    /\ resource = "project" /\ tfstate # Nil
    /\ \E ob \in {Obtainable} : \E in \in ProjectReadInputs :
          /\ Reads(ob, ProjectReadSteps(in))
          /\ \E resp \in {ProjectRead(here, tfstate, <<>>, <<>>, in)} :
             Finish("Project.Read", tfstate, resp, resp.State)

ProjectUpdateSteps(in) ==
    <<Ok(in.fac[1]), Ok(in.UpdateProject), Ok(in.fac[2]),
      Ok(in.GetProject), <<TRUE, in.project = Nil>> >>

ProjectUpdateInputs ==
    {in \in [fac : Twice, UpdateProject : RemoteOutcomes,
             GetProject : RemoteOutcomes, project : GetProjectResponses] :
        Relevant(ProjectUpdateSteps(in))}

ProjectUpdateOp ==
    /\ resource = "project" /\ tfstate # Nil
    /\ \E ob \in {Obtainable} : \E plan \in ProjectPlans : \E in \in ProjectUpdateInputs :
          /\ Reads(ob, ProjectUpdateSteps(in))
          /\ \E planned \in {ProjectUpdatePlan(plan, tfstate[1])} :
                \E resp \in {ProjectUpdate(here, tfstate, planned, in)} :
                Finish("Project.Update", tfstate, resp, resp.State)

ProjectDeleteSteps(in) == <<Ok(in.fac[1]), Ok(in.DeleteProject)>>

ProjectDeleteInputs ==
    {in \in [fac : Once, DeleteProject : RemoteOutcomes] : Relevant(ProjectDeleteSteps(in))}

\* the framework removes the resource from state when Delete reports no error
ProjectDeleteOp ==
    /\ resource = "project" /\ tfstate # Nil
    /\ \E ob \in {Obtainable} : \E in \in ProjectDeleteInputs :
          /\ Reads(ob, ProjectDeleteSteps(in))
          /\ \E resp \in {ProjectDelete(here, tfstate, in)} :
             Finish("Project.Delete", tfstate, resp,
                    IF HasError(resp.Diagnostics) THEN resp.State ELSE Nil)

ApplicationCreateSteps(in) ==
    <<Ok(in.fac[1]), Ok(in.CreateApplication), <<TRUE, in.oidcResponse = Nil>>,
      Ok(in.fac[2]), Ok(in.GetApplication), <<TRUE, in.app = Nil>> >>

ApplicationCreateInputs ==
    {in \in [fac : Twice, CreateApplication : RemoteOutcomes, oidcResponse : CreateOidcResponses,
             GetApplication : RemoteOutcomes, app : GetApplicationResponses] :
        Relevant(ApplicationCreateSteps(in))}

ApplicationCreateOp ==
    /\ resource = "application_oidc" /\ tfstate = Nil
    /\ \E ob \in {Obtainable} : \E plan \in ApplicationPlans : \E in \in ApplicationCreateInputs :
          /\ Reads(ob, ApplicationCreateSteps(in))
          /\ \E resp \in {ApplicationCreate(here, plan, in)} :
             Finish("Application.Create", tfstate, resp, resp.State)

ApplicationReadSteps(in) == <<Ok(in.fac[1]), Ok(in.GetApplication), <<TRUE, in.app = Nil>> >>

ApplicationReadInputs ==
    {in \in [fac : Once, GetApplication : RemoteOutcomes, app : GetApplicationResponses] :
        Relevant(ApplicationReadSteps(in))}

ApplicationReadOp ==
    /\ resource = "application_oidc" /\ tfstate # Nil
    /\ \E ob \in {Obtainable} : \E in \in ApplicationReadInputs :
          /\ Reads(ob, ApplicationReadSteps(in))
          /\ \E resp \in {ApplicationRead(here, tfstate, <<>>, <<>>, in)} :
             Finish("Application.Read", tfstate, resp, resp.State)

ApplicationUpdateSteps(in) ==
    <<Ok(in.fac[1]), Ok(in.UpdateApplication), Ok(in.fac[2]),
      Ok(in.GetApplication), <<TRUE, in.app = Nil>> >>

ApplicationUpdateInputsOf(apps) ==
    {in \in [fac : Twice, UpdateApplication : RemoteOutcomes,
             GetApplication : RemoteOutcomes, app : apps] :
        Relevant(ApplicationUpdateSteps(in))}

ApplicationUpdateInputs == ApplicationUpdateInputsOf(GetApplicationResponses)

\* the Update RPC on a plan drawn from plans, the remote answering from inputs
ApplicationUpdateOf(plans, inputs) ==
    /\ resource = "application_oidc" /\ tfstate # Nil
    /\ \E ob \in {Obtainable} : \E plan \in plans : \E in \in inputs :
          /\ Reads(ob, ApplicationUpdateSteps(in))
          /\ \E planned \in {ApplicationUpdatePlan(plan, tfstate[1])} :
                \E resp \in {ApplicationUpdate(here, tfstate, planned, in)} :
                FinishRequest("Application.Update", Some(planned), tfstate, resp, resp.State)

ApplicationUpdateOp == ApplicationUpdateOf(ApplicationPlans, ApplicationUpdateInputs)

ApplicationDeleteSteps(in) == <<Ok(in.fac[1]), Ok(in.DeleteApplication)>>

ApplicationDeleteInputs ==
    {in \in [fac : Once, DeleteApplication : RemoteOutcomes] :
        Relevant(ApplicationDeleteSteps(in))}

ApplicationDeleteOp ==
    /\ resource = "application_oidc" /\ tfstate # Nil
    /\ \E ob \in {Obtainable} : \E in \in ApplicationDeleteInputs :
          /\ Reads(ob, ApplicationDeleteSteps(in))
          /\ \E resp \in {ApplicationDelete(here, tfstate, in)} :
             Finish("Application.Delete", tfstate, resp,
                    IF HasError(resp.Diagnostics) THEN resp.State ELSE Nil)

OrgsReadSteps(in) == <<Ok(in.fac[1]), Ok(in.ListOrganizations), <<TRUE, in.result = <<>> >> >>

OrgsReadInputs(results) ==
    {in \in [fac : Once, ListOrganizations : RemoteOutcomes, result : results] :
        Relevant(OrgsReadSteps(in))}

\* the data source's Read RPC on a configuration drawn from configs: the
\* request carries the configuration and no state
OrgsReadOp(configs, results) ==
    /\ resource = "orgs"
    /\ \E ob \in {Obtainable} : \E config \in configs : \E in \in OrgsReadInputs(results) :
          /\ Reads(ob, OrgsReadSteps(in))
          /\ \E resp \in {OrgsRead(here, config, in)} :
             FinishRequest("Orgs.Read", Some(config), Nil, resp, resp.State)

ConfigureLifecycle == ProviderConfigure(LifecycleConfigs, LifecycleLaterConfigs, MaxConfigure)
OrgsReadLifecycle == OrgsReadOp(OrgsConfigs, ListOrganizationsResults)

Init == InitWith(LifecycleEnvironments, LifecycleFactories)

Next ==
    \/ ConfigureLifecycle
    \/ ConfigureResource
    \/ ProjectCreateOp
    \/ ProjectReadOp
    \/ ProjectUpdateOp
    \/ ProjectDeleteOp
    \/ ApplicationCreateOp
    \/ ApplicationReadOp
    \/ ApplicationUpdateOp
    \/ ApplicationDeleteOp
    \/ OrgsReadLifecycle

Spec == Init /\ [][Next]_vars

----------------------------------------------------------------------------
(* The runs that exercise GetClient on every provider configuration and
   environment: the data source alone, on one query *)

ClientOrgsConfigs ==
    {[Ids |-> ListNull, Name |-> StringValue("Sanctum"), NameMethod |-> StringNull]}

ClientResults == {<<>>, <<"org-1">>}

ClientFactories == {"nil", "MockSuccessClientFactory"}

ConfigureClient == ProviderConfigure(ZitactlProviderModel, KnownConfigs, MaxConfigure)
OrgsReadClient == OrgsReadOp(ClientOrgsConfigs, ClientResults)

InitClient == InitWith(Environments, ClientFactories) /\ resource = "orgs"

NextClient ==
    \/ ConfigureClient
    \/ ConfigureResource
    \/ OrgsReadClient

SpecClient == InitClient /\ [][NextClient]_vars

----------------------------------------------------------------------------
(* The runs that configure the provider again and again, on every provider
   configuration, environment and factory *)

Reconfigure == ProviderConfigure(ZitactlProviderModel, KnownConfigs, MaxReconfigure)

InitConfigure == InitWith(Environments, Factories) /\ resource = "orgs"

NextConfigure ==
    \/ Reconfigure
    \/ ConfigureResource

SpecConfigure == InitConfigure /\ [][NextConfigure]_vars

----------------------------------------------------------------------------
(* The runs in which the framework serves several operations at once: each
   goroutine calls GetClient on the ClientInfo its resource holds, and the
   calls interleave statement by statement *)

ConcurrentEnvironments == {Environment("", "", ""), Environment(EnvDomain, "true", EnvKey)}

\* the framework configures the provider once before it serves operations
ConfigureConcurrent == ProviderConfigure(LifecycleConfigs, LifecycleLaterConfigs, 1)

\* an operation running in goroutine g reaches r.clientInfo.GetClient(ctx)
GoCall(g) ==
    /\ clientInfo # 0
    /\ goroutines[g].pc \in {"idle", "return"}
    /\ goroutines' = [goroutines EXCEPT ![g] = [Idle EXCEPT !.pc = "25", !.ci = clientInfo]]
    /\ UNCHANGED <<env, clientFactory, heap, configureResp, resource, clientInfo,
                   factoryCalls, tfstate, last, imported, DefaultTransport>>

\* goroutine g executes its next statement of GetClient; client.New may
\* succeed or fail when the statement is the factory call
GoStep(g) ==
    /\ goroutines[g].pc \notin {"idle", "return"}
    /\ \E local \in {goroutines[g]} :
          \E calling \in {local.pc = "69"} :
          \E nd \in (IF calling THEN {"ok", "fail"} ELSE {"ok"}) :
          \E n \in {factoryCalls[local.ci] + (IF calling THEN 1 ELSE 0)} :
          \E step \in {GetClientStep(heap[local.ci], local, env, nd,
                                     IF calling THEN <<local.ci, n>> ELSE <<0, 0>>)} :
             /\ n <= MaxFactoryCalls
             /\ heap' = [heap EXCEPT ![local.ci] = step.ci]
             /\ goroutines' = [goroutines EXCEPT ![g] = step.local]
             /\ factoryCalls' = [factoryCalls EXCEPT ![local.ci] = n]
             /\ DefaultTransport' =
                   IF calling /\ local.clientFactory = "DefaultClientFactory"
                   THEN SetTransport(DefaultTransport, local.skipTlsVerification)
                   ELSE DefaultTransport
    /\ UNCHANGED <<env, clientFactory, configureResp, resource, clientInfo, tfstate, last,
                   imported>>

Call == \E g \in Goroutines : GoCall(g)
Step == \E g \in Goroutines : GoStep(g)

InitConcurrent == InitWith(ConcurrentEnvironments, LifecycleFactories) /\ resource = "orgs"

NextConcurrent ==
    \/ ConfigureConcurrent
    \/ ConfigureResource
    \/ Call
    \/ Step

SpecConcurrent == InitConcurrent /\ [][NextConcurrent]_vars

----------------------------------------------------------------------------
(* The runs that import an OIDC application: terraform import calls
   ImportState and then Read; the imported state takes the place of the one
   the workspace held, which is kept for comparison *)

\* the import of an OIDC application under the ID the user gives; Terraform
\* refuses to import over a resource it imported before
ApplicationImportOp ==
    /\ resource = "application_oidc"
    /\ imported = Nil
    /\ \E ID \in ImportIDs : \E resp \in {ImportState(ID)} :
          /\ last' = Ran("Application.ImportState", clientInfo, Some(ID), tfstate, resp)
          /\ tfstate' = IF HasError(resp.Diagnostics) THEN tfstate ELSE resp.State
          /\ imported' = IF HasError(resp.Diagnostics) THEN imported
                         ELSE Some([before |-> tfstate, ID |-> ID])
    /\ UNCHANGED <<env, clientFactory, heap, configureResp, resource, clientInfo,
                   factoryCalls, goroutines, DefaultTransport>>

ConfigureImport == ProviderConfigure(LifecycleLaterConfigs, LifecycleLaterConfigs, MaxConfigure)

\* the state Create leaves for a plan when the remote answers app
Created(plan, app) ==
    ApplicationCreate(PriorContext, plan,
        [fac |-> <<"ok", "ok">>, CreateApplication |-> "ok",
         oidcResponse |-> Some([ClientId |-> "client-1", ClientSecret |-> "secret-1"]),
         GetApplication |-> "ok", app |-> app]).State

\* the applications an earlier run created: with and without clock_skew
CreatedApplications ==
    {Created(plan, app) : plan \in {ApplicationPlanA, ApplicationPlanB},
                          app \in {a \in GetApplicationResponses : a # Nil /\ a[1].OidcConfig # Nil}}

InitImport ==
    /\ env \in LifecycleEnvironments
    /\ clientFactory = "nil"
    /\ heap = <<>>
    /\ configureResp = [DataSourceData |-> 0, ResourceData |-> 0,
                        Diagnostics |-> <<>>, Deferred |-> Nil]
    /\ resource = "application_oidc"
    /\ clientInfo = 0
    /\ factoryCalls = <<>>
    /\ tfstate \in {Nil} \cup CreatedApplications
    /\ last = Ran("none", 0, Nil, Nil, NoResponse)
    /\ goroutines = [g \in Goroutines |-> Idle]
    /\ imported = Nil
    /\ DefaultTransport = NewTransport

NextImport ==
    \/ ConfigureImport
    \/ ConfigureResource
    \/ ApplicationImportOp
    \/ ApplicationReadOp

SpecImport == InitImport /\ [][NextImport]_vars

----------------------------------------------------------------------------
(* The runs that update an OIDC application an earlier run created, with
   plans that differ from the state in nothing, in the name only, or in the
   OIDC configuration *)

\* clock_skew = "1m0s" in the configuration, and the same under another name
ApplicationPlanE == [ApplicationPlanA EXCEPT !.ClockSkew = StringValue("1m0s")]
ApplicationPlanF == [ApplicationPlanE EXCEPT !.Name = StringValue("app-b")]

\* clock_skew = "soon": not a duration
ApplicationPlanG == [ApplicationPlanE EXCEPT !.ClockSkew = StringValue("soon")]

UpdatePlans ==
    {ApplicationPlanD, ApplicationPlanE, ApplicationPlanF, ApplicationPlanG}

\* the remote application with a clock skew of one minute
RemoteOidcConfigC == [RemoteOidcConfigA EXCEPT !.ClockSkew = Some(60)]

UpdateResponses ==
    {Some([Name |-> "app-a", OidcConfig |-> Some(RemoteOidcConfigC)]),
     Some([Name |-> "app-b", OidcConfig |-> Some(RemoteOidcConfigC)])}

\* the applications an earlier run created: with clock_skew = "1m0s", with
\* clock_skew = "60s" and without clock_skew
UpdatedApplications ==
    {Created(ApplicationPlanE, app) : app \in UpdateResponses} \cup CreatedApplications

ApplicationUpdateChanged ==
    ApplicationUpdateOf(UpdatePlans, ApplicationUpdateInputsOf(UpdateResponses))

InitUpdate ==
    /\ env \in LifecycleEnvironments
    /\ clientFactory = "nil"
    /\ heap = <<>>
    /\ configureResp = [DataSourceData |-> 0, ResourceData |-> 0,
                        Diagnostics |-> <<>>, Deferred |-> Nil]
    /\ resource = "application_oidc"
    /\ clientInfo = 0
    /\ factoryCalls = <<>>
    /\ tfstate \in UpdatedApplications
    /\ last = Ran("none", 0, Nil, Nil, NoResponse)
    /\ goroutines = [g \in Goroutines |-> Idle]
    /\ imported = Nil
    /\ DefaultTransport = NewTransport

NextUpdate ==
    \/ ConfigureImport
    \/ ConfigureResource
    \/ ApplicationUpdateChanged
    \/ ApplicationReadOp

SpecUpdate == InitUpdate /\ [][NextUpdate]_vars

----------------------------------------------------------------------------
(* The runs of one process in which the provider is configured more than
   once, with and without skip_tls_verification, and builds its clients
   with DefaultClientFactory *)

TlsConfigs ==
    {Model(StringValue(ConfigDomain), BoolValue(TRUE), StringValue(ConfigKey)),
     Model(StringValue(ConfigDomain), BoolValue(FALSE), StringValue(ConfigKey)),
     Model(StringValue(ConfigDomain), BoolNull, StringValue(ConfigKey))}

TlsEnvironments == {Environment("", "", ""), Environment("", "true", "")}

ConfigureTls == ProviderConfigure(TlsConfigs, TlsConfigs, MaxReconfigure)

InitTls == InitWith(TlsEnvironments, {"nil"}) /\ resource = "orgs"

NextTls ==
    \/ ConfigureTls
    \/ ConfigureResource
    \/ OrgsReadClient

SpecTls == InitTls /\ [][NextTls]_vars

----------------------------------------------------------------------------
(* Vocabulary of the properties *)

\* the operations that need the client
ClientOps ==
    {"Project.Create", "Project.Read", "Project.Update", "Project.Delete",
     "Application.Create", "Application.Read", "Application.Update", "Application.Delete",
     "Orgs.Read"}

ConfigureOps == {"Provider.Configure", "Resource.Configure"}

\* the remote API calls and the writes to the response state, as logged
RemoteCalls ==
    {"GetOrgByID", "CreateProject", "GetProject", "UpdateProject", "DeleteProject",
     "CreateApplication", "GetApplication", "UpdateApplication", "DeleteApplication",
     "ListOrganizations"}

StateWrites == {"State.Set", "State.RemoveResource"}

\* the positions of a log that hold a call named in names
Indices(events, names) == {i \in 1..Len(events) : events[i].e \in names}

Summaries(diags) == {diags[i].summary : i \in 1..Len(diags)}

\* the settings of a provider configuration that are unknown, by schema name
SettingsUnknown(config) ==
    {n \in {"domain", "skip_tls_verification", "service_account_key"} :
        IsUnknown(CASE n = "domain" -> config.Domain
                    [] n = "skip_tls_verification" -> config.SkipTlsVerification
                    [] OTHER -> config.ServiceAccountKey)}

\* the last step ran a handler that needs the client, on a ClientInfo
HandlerRan == last.op \in ClientOps /\ last.ptr # 0 /\ ~last.crashed

\* the provider configuration that handler saw
ConfigSeen == heap[last.ptr].Config[1]

RECURSIVE Sum(_)
Sum(xs) == IF xs = <<>> THEN 0 ELSE Head(xs) + Sum(Tail(xs))

----------------------------------------------------------------------------
(* Properties *)

\* C1: on a ClientInfo whose settings are known, over any sequence of
\* operations the client factory is invoked at most once (the first success
\* is cached and returned from then on).
C1_FactoryInvokedAtMostOnce ==
    \A p \in 1..Len(heap) :
        SettingsUnknown(heap[p].Config[1]) = {} => factoryCalls[p] <= 1

\* C2: provider Configure never validates: whatever the settings are, it
\* ends with no diagnostic and no deferral, and DataSourceData and
\* ResourceData are one new ClientInfo whose Config is non-nil and holds
\* exactly the settings of the request, so that a Configure with known
\* settings leaves a ClientInfo without unknown settings.
C2_ConfigureStoresUnvalidated ==
    last.op = "Provider.Configure" =>
        /\ last.Diagnostics = <<>> /\ configureResp.Diagnostics = <<>>
        /\ configureResp.Deferred = Nil
        /\ configureResp.ResourceData = Len(heap) /\ Len(heap) > 0
        /\ configureResp.DataSourceData = configureResp.ResourceData
        /\ last.req # Nil /\ last.req[1] \in ZitactlProviderModel
        /\ heap[Len(heap)].Config = last.req
        /\ (SettingsUnknown(last.req[1]) = {}
                => SettingsUnknown(heap[Len(heap)].Config[1]) = {})

\* a second Configure with known settings, after a first with an unknown one
C2_Witness ==
    /\ last.op = "Provider.Configure" /\ Len(heap) = 2
    /\ SettingsUnknown(heap[1].Config[1]) # {}
    /\ SettingsUnknown(heap[2].Config[1]) = {}
    /\ IsNull(heap[2].Config[1].Domain)

\* C3: the client factory is never invoked by the provider's Configure nor
\* by a resource's or data source's Configure: a step that adds a factory
\* call is a Create, Read, Update or Delete of a resource or the Read of the
\* data source, and the Configure steps log no factory call.
C3_FactoryDeferredToFirstUse ==
    [][/\ Sum(factoryCalls') > Sum(factoryCalls) => last'.op \in ClientOps
       /\ last'.op \in ConfigureOps => Indices(last'.events, {"ClientFactory"}) = {}]_vars

\* the first factory call on a configured ClientInfo, made by a handler
C3_Witness ==
    /\ HandlerRan
    /\ Indices(last.events, {"ClientFactory"}) # {}
    /\ factoryCalls[last.ptr] = Cardinality(Indices(last.events, {"ClientFactory"}))

\* C4: GetClient on a ClientInfo without a client and with an unknown
\* setting returns an error and no client, invokes no factory, and the error
\* names each unknown setting once and no other setting.
C4_UnknownSettingsNamed ==
    (last.op \in ClientOps /\ last.ptr # 0 /\ heap[last.ptr].Client = Nil
        /\ SettingsUnknown(ConfigSeen) # {}) =>
        /\ Indices(last.events, {"GetClient"}) # {}
        /\ \A i \in Indices(last.events, {"GetClient"}) :
              LET ev == last.events[i]
                  names == ev.a[2][1].args
              IN /\ ev.r = "err" /\ ev.a[1] = Nil /\ ev.a[2] # Nil
                 /\ ev.a[2][1].msg = "provider configuration contains unknown values: %s"
                 /\ {names[j] : j \in 1..Len(names)} = SettingsUnknown(ConfigSeen)
                 /\ Len(names) = Cardinality(SettingsUnknown(ConfigSeen))
        /\ Indices(last.events, {"ClientFactory"}) = {}

\* two settings unknown, one known
C4_Witness ==
    /\ last.op = "Orgs.Read" /\ last.ptr # 0
    /\ SettingsUnknown(ConfigSeen) = {"domain", "skip_tls_verification"}
    /\ ConfigSeen.ServiceAccountKey = StringValue(ConfigKey)
    /\ Indices(last.events, {"GetClient"}) # {}

\* C5 as stated: every operation that needs the client ends with an error
\* diagnostic when a provider setting is unknown.
C5_EveryOperationFailsOnUnknown ==
    (HandlerRan /\ SettingsUnknown(ConfigSeen) # {}) => HasError(last.Diagnostics)

\* C5, amended: with a provider setting unknown, every operation that needs
\* the client ends with an error diagnostic, except the Read of an OIDC
\* application, which ends with no diagnostic, no remote call and the state
\* it was given.
C5_OperationsFailOnUnknownButApplicationRead ==
    (HandlerRan /\ SettingsUnknown(ConfigSeen) # {}) =>
        IF last.op = "Application.Read"
        THEN /\ last.Diagnostics = <<>>
             /\ last.State = last.entry
             /\ Indices(last.events, RemoteCalls) = {}
        ELSE HasError(last.Diagnostics)

\* the Read of an OIDC application in state, with the key unknown
C5_Witness ==
    /\ HandlerRan /\ last.op = "Application.Read"
    /\ SettingsUnknown(ConfigSeen) = {"service_account_key"}
    /\ last.entry # Nil

\* C6 as stated: whenever a setting holds a known value in the provider
\* configuration, the factory is handed that value, whatever the ZITACTL_*
\* variable contains.
C6_KnownSettingBeatsEnvironment ==
    (last.op \in ClientOps /\ last.ptr # 0) =>
        \A i \in Indices(last.events, {"ClientFactory"}) :
            LET given == last.events[i].a IN
            /\ ConfigSeen.Domain.k = "known" => given[1] = ConfigSeen.Domain.v
            /\ ConfigSeen.SkipTlsVerification.k = "known"
                   => given[2] = ConfigSeen.SkipTlsVerification.v
            /\ ConfigSeen.ServiceAccountKey.k = "known"
                   => given[3] = ConfigSeen.ServiceAccountKey.v

\* C6, amended: the factory is handed the configured domain and
\* service_account_key when they are known and not empty, and the ZITACTL_*
\* variable when they are null or empty; it is handed the configured
\* skip_tls_verification when that is known, and otherwise whether
\* ZITACTL_SKIP_TLS_VERIFICATION is "true" or "1".
C6_NonEmptySettingBeatsEnvironment ==
    (last.op \in ClientOps /\ last.ptr # 0) =>
        \A i \in Indices(last.events, {"ClientFactory"}) :
            LET given == last.events[i].a IN
            /\ given[1] = IF ConfigSeen.Domain.k = "known" /\ ConfigSeen.Domain.v # ""
                          THEN ConfigSeen.Domain.v ELSE env.ZITACTL_DOMAIN
            /\ given[2] = IF ConfigSeen.SkipTlsVerification.k = "known"
                          THEN ConfigSeen.SkipTlsVerification.v
                          ELSE env.ZITACTL_SKIP_TLS_VERIFICATION \in {"true", "1"}
            /\ given[3] = IF ConfigSeen.ServiceAccountKey.k = "known"
                               /\ ConfigSeen.ServiceAccountKey.v # ""
                          THEN ConfigSeen.ServiceAccountKey.v
                          ELSE env.ZITACTL_SERVICE_ACCOUNT_KEY

\* every setting configured, every variable set to something else, and the
\* factory called
C6_Witness ==
    /\ last.op = "Orgs.Read" /\ last.ptr # 0
    /\ ConfigSeen = Model(StringValue(ConfigDomain), BoolValue(FALSE), StringValue(ConfigKey))
    /\ env = Environment(EnvDomain, "true", EnvKey)
    /\ Indices(last.events, {"ClientFactory"}) # {}

\* C7: with no setting unknown, GetClient fails with "the 'domain' attribute
\* must be set" when neither the configuration nor ZITACTL_DOMAIN gives a
\* domain, whether or not a key is given, and with "the
\* 'service_account_key' attribute must be set" when a domain is given and
\* neither the configuration nor ZITACTL_SERVICE_ACCOUNT_KEY gives a key;
\* it returns no client and the factory is not invoked.
C7_MissingSettingsReported ==
    (last.op \in ClientOps /\ last.ptr # 0 /\ heap[last.ptr].Client = Nil
        /\ SettingsUnknown(ConfigSeen) = {}) =>
        LET noDomain == ConfigSeen.Domain.v = "" /\ env.ZITACTL_DOMAIN = ""
            noKey == ConfigSeen.ServiceAccountKey.v = "" /\ env.ZITACTL_SERVICE_ACCOUNT_KEY = ""
        IN (noDomain \/ noKey) =>
              /\ Indices(last.events, {"GetClient"}) # {}
              /\ \A i \in Indices(last.events, {"GetClient"}) :
                    /\ last.events[i].r = "err" /\ last.events[i].a[1] = Nil
                    /\ last.events[i].a[2] =
                          Errorf(IF noDomain THEN "the 'domain' attribute must be set"
                                 ELSE "the 'service_account_key' attribute must be set", <<>>)
              /\ Indices(last.events, {"ClientFactory"}) = {}

\* neither a domain nor a key, in the configuration or the environment
C7_Witness ==
    /\ last.op = "Orgs.Read" /\ last.ptr # 0
    /\ ConfigSeen = Model(StringValue(""), BoolNull, StringNull)
    /\ env = Environment("", "1", "")
    /\ Indices(last.events, {"GetClient"}) # {}

\* C8: when GetProject or GetApplication answers not-found, the Read of a
\* project or of an OIDC application, alone or as the last step of Create
\* or Update, removes the resource from state and adds no error diagnostic.
C8_NotFoundRemovesFromState ==
    \A i \in Indices(last.events, {"GetProject", "GetApplication"}) :
        last.events[i].r = "notfound" =>
            /\ last.op \in {"Project.Create", "Project.Read", "Project.Update",
                            "Application.Create", "Application.Read", "Application.Update"}
            /\ last.State = Nil /\ tfstate = Nil
            /\ ~HasError(last.Diagnostics)
            /\ i + 1 = Len(last.events)
            /\ last.events[i + 1].e = "State.RemoveResource"

\* the project is gone when Update reads it back
C8_Witness ==
    /\ last.op = "Project.Update" /\ last.entry # Nil
    /\ \E i \in Indices(last.events, {"GetProject"}) : last.events[i].r = "notfound"
    /\ Indices(last.events, {"UpdateProject"}) # {}

\* C9: a remote API call that fails with anything but not-found ends its
\* operation: the operation issues no further remote call, writes nothing to
\* the response state afterwards, and ends with an error diagnostic.
C9_RemoteFailureEndsInError ==
    \A i \in Indices(last.events, RemoteCalls) :
        last.events[i].r = "error" =>
            /\ last.op \in ClientOps
            /\ HasError(last.Diagnostics)
            /\ \A j \in (i + 1)..Len(last.events) :
                  last.events[j].e \notin (StateWrites \cup RemoteCalls)

\* GetApplication fails when Create reads the new application back
C9_Witness ==
    /\ last.op = "Application.Create"
    /\ \E i \in Indices(last.events, {"GetApplication"}) : last.events[i].r = "error"
    /\ last.State # Nil

\* C10: an operation that reports an error of GetClient does so under the
\* summary "Client configuration not possible!", has issued no remote call
\* and leaves the response state as it was on entry; no other failure is
\* reported under that summary.
C10_ClientFailureHasNoSideEffect ==
    (last.op \in ClientOps /\ ~last.crashed) =>
        LET failed == \E i \in Indices(last.events, {"GetClient"}) : last.events[i].r = "err"
            summary == "Client configuration not possible!" \in Summaries(last.Diagnostics)
        IN /\ (failed /\ HasError(last.Diagnostics)) => summary
           /\ summary => /\ failed
                         /\ Indices(last.events, RemoteCalls) = {}
                         /\ last.State = last.entry

\* the fields of the ClientInfo the next statement of goroutine g touches
NextAccess(g) ==
    IF goroutines[g].pc \in {"idle", "return"} THEN {}
    ELSE GetClientStep(heap[goroutines[g].ci], goroutines[g], env, "ok", <<0, 0>>).access

C12_InjectedFactoryIsInvoked ==
    /\ \A p \in 1..Len(heap) : heap[p].ClientFactory = clientFactory
    /\ configureResp.ResourceData # 0 =>
          /\ heap[configureResp.ResourceData].ClientFactory = clientFactory
          /\ configureResp.DataSourceData = configureResp.ResourceData
    /\ last.op \in ClientOps =>
          \A i \in Indices(last.events, {"ClientFactory"}) :
              last.events[i].r = IF clientFactory = "nil" THEN "DefaultClientFactory"
                                 ELSE clientFactory

\* an operation called the factory handed to NewWithClientFactory
C12_Witness ==
    /\ clientFactory = "MockFailureClientFactory"
    /\ last.op \in ClientOps
    /\ \E i \in Indices(last.events, {"ClientFactory"}) :
          last.events[i].r = "MockFailureClientFactory"

\* C13: ImportState of an OIDC application accepts an import ID exactly when
\* splitting it on ':' gives two parts; it then sets project_id to the first
\* part and id to the second and nothing else, and for every other ID it adds
\* the error "Invalid Import ID" and sets no attribute.
C13_ImportIdIsProjectColonApp ==
    last.op = "Application.ImportState" =>
        LET ID == last.req[1]
            colons == Cardinality({i \in 1..Len(ID) : ID[i] = ":"})
        IN IF colons = 1
           THEN /\ ~HasError(last.Diagnostics)
                /\ \E i \in 1..Len(ID) :
                      /\ ID[i] = ":"
                      /\ last.State =
                            Some([ApplicationNull EXCEPT
                                     !.ProjectId = StringValue(IF i = 1 THEN "" ELSE ID[i - 1]),
                                     !.Id = StringValue(IF i = Len(ID) THEN "" ELSE ID[i + 1])])
                /\ tfstate = last.State
           ELSE /\ Summaries(last.Diagnostics) = {"Invalid Import ID"}
                /\ HasError(last.Diagnostics)
                /\ last.State = Nil
                /\ Indices(last.events, {"State.SetAttribute"}) = {}
                /\ tfstate = last.entry

\* an ID with two colons was refused
C13_Witness ==
    /\ last.op = "Application.ImportState"
    /\ last.req = Some(<<"project-1", ":", "app-1", ":">>) \/ last.req = Some(<<"project-1", ":", ":">>)
    /\ HasError(last.Diagnostics)

\* C14: for an application the provider created, ImportState under
\* "<project_id>:<id>" followed by a Read that gets the application from the
\* remote as Create got it leaves a state equal to the one Create left, in
\* every attribute but client_id and client_secret.
C14_ImportRoundTrip ==
    (/\ last.op = "Application.Read" /\ ~last.crashed
     /\ imported # Nil /\ last.State # Nil /\ ~HasError(last.Diagnostics)) =>
        LET before == imported[1].before
            ID == imported[1].ID
        IN (/\ before \in CreatedApplications
            /\ ID = <<before[1].ProjectId.v, ":", before[1].Id.v>>
            /\ last.entry = ImportState(ID).State
            /\ \E i \in Indices(last.events, {"GetApplication"}) :
                  /\ last.events[i].r = "ok"
                  /\ \E plan \in ApplicationPlans : before = Created(plan, last.events[i].a[2]))
           => \A a \in DOMAIN ApplicationNull \ {"ClientId", "ClientSecret"} :
                  last.State[1][a] = before[1][a]

\* the data of the first State.Set of the last operation: the plan, with the
\* identifiers Create adds
Planned == last.events[CHOOSE i \in Indices(last.events, {"State.Set"}) :
                          \A j \in Indices(last.events, {"State.Set"}) : i <= j].a[1]

\* the request the last operation sent with the call named e, and the
\* message its Read got back
Request(e) == last.events[CHOOSE i \in Indices(last.events, {e}) : TRUE].a[1]
Answer(e) == last.events[CHOOSE i \in Indices(last.events, {e}) : TRUE].a[2]

\* the remote answers the Read with the values the request carried
StoresProject ==
    /\ Answer("GetProject") # Nil
    /\ LET rp == Answer("GetProject")[1] IN
       IF last.op = "Project.Create"
       THEN LET req == Request("CreateProject") IN
            \A f \in DOMAIN req : rp[f] = req[f]
       ELSE LET req == Request("UpdateProject") IN
            /\ req.Name = Some(rp.Name)
            /\ req.ProjectRoleAssertion = Some(rp.ProjectRoleAssertion)
            /\ req.ProjectRoleCheck = Some(rp.AuthorizationRequired)
            /\ req.HasProjectCheck = Some(rp.ProjectAccessRequired)
            /\ req.PrivateLabelingSetting # Nil
                  => req.PrivateLabelingSetting = Some(rp.PrivateLabelingSetting)

StoresApplication ==
    /\ Answer("GetApplication") # Nil
    /\ Answer("GetApplication")[1].OidcConfig # Nil
    /\ LET app == Answer("GetApplication")[1]
           oidc == app.OidcConfig[1]
       IN IF last.op = "Application.Create"
          THEN LET req == Request("CreateApplication") IN
               /\ app.Name = req.Name
               /\ \A f \in DOMAIN oidc : oidc[f] = req[f]
          ELSE LET req == Request("UpdateApplication") IN
               /\ app.Name = IF req.Name = "" THEN last.entry[1].Name.v ELSE req.Name
               /\ req.OidcConfigurationRequest # Nil
               /\ LET cfg == req.OidcConfigurationRequest[1] IN
                  /\ \A f \in {"RedirectUris", "ResponseTypes", "GrantTypes",
                               "PostLogoutRedirectUris", "AdditionalOrigins"} : oidc[f] = cfg[f]
                  /\ \A f \in {"AccessTokenRoleAssertion", "IdTokenRoleAssertion",
                               "IdTokenUserinfoAssertion", "DevMode", "SkipNativeAppSuccessPage"} :
                        cfg[f] = Some(oidc[f])
                  /\ \A f \in {"AccessTokenType", "AppType", "AuthMethodType", "Version"} :
                        cfg[f] # Nil => cfg[f] = Some(oidc[f])

\* every enum name the plan sets is a name of its enum
EnumNames(attribute) ==
    CASE attribute = "PrivateLabelingSetting" -> PrivateLabelingSetting_value
      [] attribute = "GrantTypes" -> OIDCGrantType_value
      [] attribute = "ResponseTypes" -> OIDCResponseType_value
      [] attribute = "AccessTokenType" -> OIDCTokenType_value
      [] attribute = "AppType" -> OIDCAppType_value
      [] attribute = "AuthMethodType" -> OIDCAuthMethodType_value
      [] OTHER -> OIDCVersion_value

PlansEnumNames ==
    /\ \A a \in DOMAIN Planned \cap {"PrivateLabelingSetting", "AccessTokenType", "AppType",
                                     "AuthMethodType", "Version"} :
          Planned[a].k = "known" => Planned[a].v \in EnumNames(a)
    /\ \A a \in DOMAIN Planned \cap {"GrantTypes", "ResponseTypes"} :
          \A i \in 1..Len(Planned[a].v) : Planned[a].v[i] \in EnumNames(a)

\* the attributes a configuration can set: name, flags, enum names, lists
Settable ==
    {"Name", "HasProjectCheck", "ProjectRoleAssertion", "ProjectRoleCheck",
     "PrivateLabelingSetting", "GrantTypes", "ResponseTypes", "RedirectUris",
     "PostLogoutRedirectUris", "AdditionalOrigins", "AccessTokenRoleAssertion",
     "IdTokenRoleAssertion", "IdTokenUserinfoAssertion", "DevMode",
     "SkipNativeAppSuccessPage", "AccessTokenType", "AppType", "AuthMethodType", "Version"}

\* the last operation was a Create or an Update that sent its request, read
\* the resource back and ended without error
RoundTrip ==
    /\ last.op \in {"Project.Create", "Project.Update", "Application.Create",
                    "Application.Update"}
    /\ ~last.crashed /\ last.State # Nil /\ ~HasError(last.Diagnostics)
    /\ Indices(last.events, {"CreateProject", "UpdateProject", "CreateApplication",
                             "UpdateApplication"}) # {}
    /\ \E i \in Indices(last.events, {"GetProject", "GetApplication"}) : last.events[i].r = "ok"
    /\ IF last.op \in {"Project.Create", "Project.Update"} THEN StoresProject
       ELSE StoresApplication

\* C15: after a successful Create or Update of a project or an OIDC
\* application whose plan sets valid enum names, against a remote that
\* answers the Read with the values it was sent, the state holds the planned
\* value of every attribute the plan sets: name, flags, enum names and lists.
C15_PlannedValuesInState ==
    (RoundTrip /\ PlansEnumNames) =>
        \A a \in DOMAIN Planned \cap Settable :
            Planned[a].k = "known" => last.State[1][a] = Planned[a]

\* the ListOrganizations requests of the last handler run
Listed ==
    {<<last.events[i].a[1], last.events[i].a[2]>> :
        i \in Indices(last.events, {"ListOrganizations"})}

\* the last run was the data source's Read and GetClient gave it a client
OrgsReadWithClient ==
    /\ last.op = "Orgs.Read"
    /\ ~last.crashed
    /\ "Client configuration not possible!" \notin Summaries(last.Diagnostics)

\* C16: the data source's Read, once it has a client, searches with
\* TEXT_QUERY_METHOD_EQUALS_IGNORE_CASE when name_method is null or unknown
\* and with the named method when name_method names a TextQueryMethod; on any
\* other name_method it reports "Invalid name_method", sends no
\* ListOrganizations request and sets no state.
C16_NameMethodSelectsQueryMethod ==
    OrgsReadWithClient =>
        LET data == last.req[1]
        IN IF IsNull(data.NameMethod) \/ IsUnknown(data.NameMethod)
           THEN Listed = {<<data.Name.v, "TEXT_QUERY_METHOD_EQUALS_IGNORE_CASE">>}
           ELSE IF data.NameMethod.v \in TextQueryMethod_value
           THEN Listed = {<<data.Name.v, data.NameMethod.v>>}
           ELSE /\ Summaries(last.Diagnostics) = {"Invalid name_method"}
                /\ Listed = {}
                /\ last.State = Nil
                /\ Indices(last.events, StateWrites) = {}

\* name_method = "INVALID_TEXT_QUERY_METHOD" after the factory gave a client
C16_Witness ==
    /\ OrgsReadWithClient
    /\ last.req[1].NameMethod = StringValue("INVALID_TEXT_QUERY_METHOD")
    /\ FactoryEvents(last.events) # <<>>
    /\ HasError(last.Diagnostics)

\* the organization ids of the ListOrganizations responses of the last run
Results ==
    {last.events[i].a[3][1] :
        i \in {j \in Indices(last.events, {"ListOrganizations"}) : last.events[j].r = "ok"}}

\* C17: when ListOrganizations answers, the data source's Read ends without
\* an error diagnostic and its state has the configured name and, as ids,
\* exactly the ids of the organizations of the response in their order; with
\* no organization in the response ids has zero elements.
C17_IdsAreTheResultInOrder ==
    (last.op = "Orgs.Read" /\ Results # {}) =>
        /\ ~last.crashed
        /\ ~HasError(last.Diagnostics)
        /\ last.State # Nil
        /\ last.State[1].Name = last.req[1].Name
        /\ last.State[1].NameMethod = last.req[1].NameMethod
        /\ Results = {last.State[1].Ids.v}
        /\ (Results = {<<>>} => Len(last.State[1].Ids.v) = 0)

\* a search that matched no organization
C17_Witness ==
    /\ last.op = "Orgs.Read"
    /\ Results = {<<>>}
    /\ last.State # Nil
    /\ last.State[1].Name = StringValue("Sanctum")
    /\ last.State[1].Ids.v = <<>>

\* C18: a Read of the data source whose configured name is the empty string
\* ends with an error diagnostic and sends no ListOrganizations request.
C18_EmptyNameIsRejected ==
    (last.op = "Orgs.Read" /\ ~last.crashed /\ last.req[1].Name = StringValue("")) =>
        /\ HasError(last.Diagnostics)
        /\ Indices(last.events, {"ListOrganizations"}) = {}

\* C19: Create of a project whose private_labeling_setting is not a name of
\* PrivateLabelingSetting ends with an error diagnostic and sends no
\* CreateProject request.
C19_InvalidPrivateLabelingSettingIsCaught ==
    (/\ last.op = "Project.Create" /\ ~last.crashed
     /\ last.req[1].PrivateLabelingSetting.k = "known"
     /\ last.req[1].PrivateLabelingSetting.v \notin PrivateLabelingSetting_value) =>
        /\ HasError(last.Diagnostics)
        /\ Indices(last.events, {"CreateProject"}) = {}

\* C20: in Create of a project CreateProject is sent only after GetOrgByID
\* has answered without error; when GetOrgByID answers not-found the only
\* diagnostic is "Invalid Organization ID", on any other failure it is
\* "Error Validating Organization", and in both cases no CreateProject
\* request is sent and no state is set.
C20_OrganizationIsValidatedFirst ==
    last.op = "Project.Create" =>
        LET orgs == Indices(last.events, {"GetOrgByID"})
            creates == Indices(last.events, {"CreateProject"})
        IN /\ \A c \in creates : \E o \in orgs : o < c /\ last.events[o].r = "ok"
           /\ \A o \in orgs :
                 last.events[o].r # "ok" =>
                    /\ Summaries(last.Diagnostics) =
                          {IF last.events[o].r = "notfound" THEN "Invalid Organization ID"
                           ELSE "Error Validating Organization"}
                    /\ creates = {}
                    /\ Indices(last.events, StateWrites) = {}
                    /\ last.State = Nil
                    /\ tfstate = Nil

\* GetOrgByID answered not-found
C20_Witness ==
    /\ last.op = "Project.Create"
    /\ \E o \in Indices(last.events, {"GetOrgByID"}) : last.events[o].r = "notfound"
    /\ HasError(last.Diagnostics)

\* the last run was an Update of an OIDC application that got a client
UpdateWithClient ==
    /\ last.op = "Application.Update"
    /\ ~last.crashed
    /\ "Client configuration not possible!" \notin Summaries(last.Diagnostics)

\* what differs between the state and the plan of the last Update
NameDiffers == last.entry[1].Name # last.req[1].Name
OidcDiffers ==
    \E i \in 1..Len(OidcConfigAttributes) :
        last.entry[1][OidcConfigAttributes[i]] # last.req[1][OidcConfigAttributes[i]]

\* the UpdateApplication requests of the last run
Updates == {last.events[i].a[1] : i \in Indices(last.events, {"UpdateApplication"})}

\* the planned OIDC configuration can be put into a request: the required
\* lists are known and a clock_skew that is given parses as a duration
Convertible ==
    /\ FirstUnknown(<<last.req[1].GrantTypes, last.req[1].ResponseTypes,
                      last.req[1].RedirectUris>>, 1) = 0
    /\ ClockSkewGiven(last.req[1]) => ClockSkewOf(last.req[1]) # Nil

\* the request carries the name only when the name changed and the OIDC
\* configuration only when an OIDC attribute changed; when nothing differs
\* state is set and Read refreshes it
UpdateCarriesWhatChanged ==
    /\ \A req \in Updates :
          /\ req.Name # "" => NameDiffers
          /\ req.OidcConfigurationRequest # Nil <=> OidcDiffers
    /\ (~NameDiffers /\ ~OidcDiffers) =>
          \E i \in Indices(last.events, {"State.Set"}) :
             \E j \in Indices(last.events, {"GetClient"}) : i < j

\* C21 as stated: Update of an OIDC application sends UpdateApplication if
\* and only if the name or one of the fifteen compared attributes differs
\* between state and plan.
C21_UpdateSentIffSomethingDiffers ==
    UpdateWithClient =>
        /\ Updates # {} <=> (NameDiffers \/ OidcDiffers)
        /\ UpdateCarriesWhatChanged

\* C21: Update of an OIDC application sends UpdateApplication if and only
\* if the name or one of the fifteen compared attributes differs between
\* state and plan and, when an OIDC attribute differs, the planned
\* configuration can be converted; the request carries the name only when
\* the name changed and the configuration only when an attribute changed,
\* and when nothing differs no request is sent, state is set and Read runs.
C21_UpdateSentIffDiffersAndConverts ==
    UpdateWithClient =>
        /\ Updates # {} <=> (IF OidcDiffers THEN Convertible ELSE NameDiffers)
        /\ UpdateCarriesWhatChanged

\* only an OIDC attribute differs: the request has no name
C21_Witness ==
    /\ UpdateWithClient
    /\ ~NameDiffers /\ OidcDiffers
    /\ \E req \in Updates : req.Name = "" /\ req.OidcConfigurationRequest # Nil

\* the outcomes of the remote delete calls of the last run
Deleted ==
    {last.events[i].r : i \in Indices(last.events, {"DeleteProject", "DeleteApplication"})}

\* the Delete of the last run once more on the same state, the client
\* obtained again and the remote now reporting not-found
DeleteAgain ==
    LET in == [fac |-> <<"ok">>, DeleteProject |-> "notfound", DeleteApplication |-> "notfound"]
    IN IF last.op = "Project.Delete" THEN ProjectDelete(here, last.entry, in)
       ELSE ApplicationDelete(here, last.entry, in)

\* C22: a Delete of a project or an OIDC application whose remote delete
\* call reports not-found ends with no error diagnostic and removes the
\* state, as one whose call succeeds does; after a successful Delete the same
\* Delete once more, the remote reporting not-found, succeeds too; any other
\* failure of the remote call adds an error diagnostic and keeps the state.
C22_DeleteToleratesNotFound ==
    (last.op \in {"Project.Delete", "Application.Delete"} /\ Deleted # {}) =>
        /\ ~last.crashed
        /\ Deleted \subseteq {"ok", "notfound"} =>
              /\ last.Diagnostics = <<>>
              /\ tfstate = Nil
        /\ Deleted = {"ok"} =>
              /\ DeleteAgain.Diagnostics = <<>>
              /\ ~DeleteAgain.crashed
              /\ \E i \in 1..Len(DeleteAgain.events) : DeleteAgain.events[i].r = "notfound"
        /\ "error" \in Deleted =>
              /\ HasError(last.Diagnostics)
              /\ tfstate = last.entry

\* DeleteApplication reported not-found
C22_Witness ==
    /\ last.op = "Application.Delete"
    /\ Deleted = {"notfound"}
    /\ last.Diagnostics = <<>>
    /\ tfstate = Nil

\* the last run was a Read of an OIDC application whose GetClient failed
ReadWithoutClient ==
    /\ last.op = "Application.Read" /\ last.ptr # 0 /\ ~last.crashed
    /\ \E i \in Indices(last.events, {"GetClient"}) : last.events[i].r = "err"

\* C23: a Read of an OIDC application whose GetClient fails issues no remote
\* call and leaves the state it was given; when a provider setting is
\* unknown it adds no diagnostic, and when none is unknown its only
\* diagnostic is the error "Client configuration not possible!".
C23_ReadSkipsRefreshOnUnknown ==
    ReadWithoutClient =>
        /\ Indices(last.events, RemoteCalls \cup StateWrites) = {}
        /\ last.State = last.entry /\ tfstate = last.entry
        /\ IF heap[last.ptr].Config # Nil /\ SettingsUnknown(ConfigSeen) # {}
           THEN last.Diagnostics = <<>>
           ELSE /\ Len(last.Diagnostics) = 1
                /\ last.Diagnostics[1].severity = "error"
                /\ last.Diagnostics[1].summary = "Client configuration not possible!"

\* GetClient refused the unknown settings and the Read returned the state
\* of the application without a diagnostic
C23_Witness ==
    /\ ReadWithoutClient
    /\ SettingsUnknown(ConfigSeen) # {}
    /\ \E i \in Indices(last.events, {"GetClient"}) :
          last.events[i].a[2][1].msg = "provider configuration contains unknown values: %s"
    /\ last.State # Nil /\ last.State = last.entry
    /\ last.Diagnostics = <<>>

\* the last run was a Create whose remote create call succeeded
CreatedRemotely ==
    /\ last.op \in {"Project.Create", "Application.Create"}
    /\ ~last.crashed
    /\ \E i \in Indices(last.events, {"CreateProject", "CreateApplication"}) :
          last.events[i].r = "ok"

\* the outcomes of the reads of the last run
Gots == {last.events[i].r : i \in Indices(last.events, {"GetProject", "GetApplication"})}

\* C24: once CreateProject or CreateApplication has succeeded, the state
\* Create returns holds the created id, also when the Read inside Create
\* fails to get a client or gets a remote error; the state is empty only
\* when that Read was answered not-found.
C24_CreatedIdIsInState ==
    CreatedRemotely =>
        /\ tfstate = last.State
        /\ IF "notfound" \in Gots THEN last.State = Nil
           ELSE /\ last.State # Nil
                /\ last.State[1].Id =
                      StringValue(IF last.op = "Project.Create" THEN NewProjectId ELSE NewAppId)

\* GetProject failed inside Create and the state holds the new id
C24_Witness ==
    /\ CreatedRemotely /\ last.op = "Project.Create"
    /\ Gots = {"error"}
    /\ HasError(last.Diagnostics)
    /\ last.State # Nil /\ last.State[1].Id = StringValue(NewProjectId)

\* the attributes Create stores and no later operation writes
Identity == {"Id", "ProjectId", "ClientId", "ClientSecret"}

\* C25: a Read or an Update of an OIDC application that leaves a state
\* leaves id, project_id, client_id and client_secret as they were in the
\* state it was given, so over any sequence of Reads and Updates the state
\* keeps the values Create stored.
C25_IdentityAttributesAreKept ==
    [][(/\ last'.op \in {"Application.Read", "Application.Update"}
        /\ last' # last
        /\ tfstate # Nil /\ tfstate' # Nil)
          => \A a \in Identity : tfstate'[1][a] = tfstate[1][a]]_vars

\* an Update changed the name and the credentials are those of the state
C25_Witness ==
    /\ last.op = "Application.Update"
    /\ last.entry # Nil /\ last.State # Nil /\ tfstate = last.State
    /\ last.State[1].Name # last.entry[1].Name
    /\ last.State[1].ClientSecret = StringValue("secret-1")
    /\ \A a \in Identity : last.State[1][a] = last.entry[1][a]

\* C26: an operation of a resource or data source that holds no ClientInfo,
\* or whose ClientInfo has no Config, ends with an error diagnostic and does
\* not crash.
C26_UnconfiguredFailsCleanly ==
    (/\ last.op \in ClientOps
     /\ IF last.ptr = 0 THEN TRUE ELSE heap[last.ptr].Config = Nil) =>
        /\ ~last.crashed
        /\ HasError(last.Diagnostics)

\* C27: a GetClient call that returns a nil error returns a client, whatever
\* the factory, and no operation that holds a ClientInfo crashes on a nil
\* client.
C27_ClientOrError ==
    /\ \A i \in Indices(last.events, {"GetClient"}) :
          last.events[i].r = "ok" => last.events[i].a[1] # Nil
    /\ (last.op \in ClientOps /\ last.ptr # 0) => ~last.crashed

\* the GetClient calls of a handler run that came back with the error of
\* the factory
FailedConstructions(run) ==
    {i \in Indices(run.events, {"GetClient"}) :
        /\ run.events[i].r = "err"
        /\ i > 1 /\ run.events[i - 1].e = "ClientFactory"}

VerifiesCertificates(skipTlsVerification, transport) ==
    [connection |-> ~skipTlsVerification,
     http |-> transport.TLSClientConfig = Nil]

\* C29: a client that DefaultClientFactory builds with
\* skip_tls_verification = false verifies certificates as it does in a
\* process that built no client before, whatever clients were built earlier.
C29_TlsVerificationIsPerClient ==
    \A i \in Indices(last.events, {"ClientFactory"}) :
        (last.events[i].r = "DefaultClientFactory" /\ ~last.events[i].a[2]) =>
            VerifiesCertificates(FALSE, DefaultTransport)
                = VerifiesCertificates(FALSE, NewTransport)

\* the last run reached the refresh of Read, on its own or at the end of
\* Create or Update, and GetApplication answered without error
ReadAnswered ==
    /\ last.op \in {"Application.Read", "Application.Create", "Application.Update"}
    /\ ~last.crashed
    /\ \E i \in Indices(last.events, {"GetApplication"}) : last.events[i].r = "ok"

\* the state that Read was given: the state of the request, or the state
\* Create or Update set before calling Read
ReadGiven ==
    IF last.op = "Application.Read" THEN last.entry[1]
    ELSE last.events[CHOOSE i \in Indices(last.events, {"State.Set"}) :
                         \A j \in Indices(last.events, {"State.Set"}) : i <= j].a[1]

\* the given state holds a non-empty clock_skew
SkewGiven == ReadGiven.ClockSkew.k = "known" /\ ReadGiven.ClockSkew.v # ""

\* GetApplication answered an application with OIDC configuration
AnsweredOidc ==
    /\ Answer("GetApplication") # Nil
    /\ Answer("GetApplication")[1].OidcConfig # Nil

\* the clock skew of the remote application of that Read, as a duration
RemoteClockSkew ==
    LET oidc == Answer("GetApplication")[1].OidcConfig[1]
    IN IF oidc.ClockSkew = Nil THEN 0 ELSE oidc.ClockSkew[1]

\* C30 as stated: a Read of an OIDC application sets clock_skew to null
\* whenever the clock_skew of the state it was given is null, unknown or
\* the empty string, whatever the remote application has, and replaces it
\* with the remote duration only when the given clock_skew is non-empty.
C30_ClockSkewNullUnlessGiven ==
    ReadAnswered =>
        /\ last.State # Nil
        /\ IF SkewGiven
           THEN \/ last.State[1].ClockSkew = ReadGiven.ClockSkew
                \/ /\ AnsweredOidc
                   /\ last.State[1].ClockSkew = StringValue(DurationString(RemoteClockSkew))
           ELSE last.State[1].ClockSkew = StringNull

\* C30, amended: when GetApplication answers an application with OIDC
\* configuration, Read sets clock_skew to the remote duration if the given
\* state holds a non-empty clock_skew and to null if it holds null, unknown
\* or the empty string; when the answer carries no application or no OIDC
\* configuration, Read leaves clock_skew as it was given.
C30_ClockSkewFollowsState ==
    ReadAnswered =>
        /\ last.State # Nil
        /\ last.State[1].ClockSkew =
              IF ~AnsweredOidc THEN ReadGiven.ClockSkew
              ELSE IF SkewGiven THEN StringValue(DurationString(RemoteClockSkew))
              ELSE StringNull

\* a Read was given the empty clock_skew, the remote application has a
\* clock skew of one minute, and the state holds null
C30_Witness ==
    /\ ReadAnswered /\ AnsweredOidc
    /\ ReadGiven.ClockSkew = StringValue("")
    /\ RemoteClockSkew = 60
    /\ last.State # Nil /\ last.State[1].ClockSkew = StringNull

====
